---- MODULE Spec2Model ----
(***************************************************************************)
(* HouseMech: the rule dispatcher (housemech_rule.c), the locked-source    *)
(* pollers (housemech_event.c, housemech_sensor.c) and the control point   *)
(* registry (housemech_control.c), as one state machine per component.     *)
(*                                                                         *)
(* The program is single threaded: every handler (a background tick, the   *)
(* completion callback of an HTTP request, a call made by a rule) runs to  *)
(* completion, so every handler is one action.                             *)
(***************************************************************************)
EXTENDS Integers, Sequences, FiniteSets, TLC

VARIABLES
    \* housemech_rule.c, and the Tcl interpreter it owns
    procs,                  \* the procs defined in the interpreter: name -> arity
    HouseMechReady,         \* housemech_rule.c:76
    EventState,             \* bootstrap.tcl, House::EventState: index -> last action
    \* housemech_event.c / housemech_sensor.c (same statics in both files)
    module,                 \* which of the two pollers this instance is
    HouseMechCurrentServer, \* the provider the poller is locked on, or NULL
    HouseMechLatestId,      \* the id of the last record accepted
    HouseMechLatestTime,    \* HouseMech{Event,Sensor}LatestTime, the since parameter
    NextCycle,              \* Next{Event,Sensor}Cycle
    pendingH,               \* history requests submitted and not yet answered
    lostLock,               \* history: the provider whose failed response was
                            \* the last thing to drop the lock, or NULL
    sessionMax,             \* history: the highest id dispatched since the
                            \* lock was taken, 0 when unlocked
    \* housemech_control.c
    Controls,               \* the array of HouseControl, in order of creation
    ControlsActive,
    Providers,              \* the cached list of control servers
    latestdiscovery,
    pendingC,               \* control requests submitted and not yet answered
    reported,               \* history: point -> the state that the latest body
                            \* given to housemech_control_update has carried
    served,                 \* the state that the provider of the feedback loop
                            \* holds for its point, NULL outside of that loop
    namedBy,                \* history: point -> the provider that has sent the
                            \* latest such body that lists the point
    \* the clock, and what the last handler was given and did
    now,
    last

ruleVars == <<procs, HouseMechReady, EventState>>
streamVars == <<module, HouseMechCurrentServer, HouseMechLatestId,
                HouseMechLatestTime, NextCycle, pendingH, lostLock,
                sessionMax>>
controlVars == <<Controls, ControlsActive, Providers, latestdiscovery, pendingC,
                 reported, namedBy, served>>
vars == <<procs, HouseMechReady, EventState,
          module, HouseMechCurrentServer, HouseMechLatestId,
          HouseMechLatestTime, NextCycle, pendingH, lostLock, sessionMax,
          Controls, ControlsActive, Providers, latestdiscovery, pendingC,
          reported, namedBy, served, now, last>>

\* A null pointer (a char * that is 0), as opposed to the empty string.
NULL == "<null>"

\* What a handler leaves for the properties to look at: its name, its
\* arguments, what it returned, the HTTP requests it submitted, the rule
\* procs whose body it ran and the records it handed to the dispatcher.
NoCall == [op |-> "none", name |-> "", provider |-> "", text |-> "",
           num |-> 0, ret |-> 0, str |-> "", wasId |-> 0,
           batch |-> <<>>, canopen |-> TRUE, ready |-> TRUE, failed |-> {},
           sent |-> <<>>, invoked |-> <<>>, dispatched |-> <<>>]

----------------------------------------------------------------------------
(***************************************************************************)
(* The rule dispatcher, housemech_rule.c.                                  *)
(***************************************************************************)

\* The events, sensors and rule procs of the model.  The name "B.C" holds a
\* dot, like the name mechrules.tcl of the test script, so that the proc name
\* EVENT.A.B.C is both the full key of (A, B, C) and the category.name key of
\* (A, B.C).
Categories == {"A"}
EventNames == {"B", "B.C"}
EventActions == {"C", "", NULL}
Locations == {"L"}
SensorNames == {"N"}
SensorValues == {"1"}
RuleDefs == { <<"EVENT.A.B.C", 0>>, <<"EVENT.A.B.C", 1>>, <<"EVENT.A.B", 1>>,
              <<"EVENT.A", 2>>, <<"SENSOR.L.N", 1>>, <<"SENSOR.L", 2>>,
              <<"POINT.p1", 1>> }
RuleNames == { d[1] : d \in RuleDefs }
\* A script defines each proc at most once, and at most MaxScript procs; the
\* procs of the scripts loaded one after the other add up.
MaxScript == 2
Scripts == { s \in SUBSET RuleDefs :
               /\ Cardinality(s) <= MaxScript
               /\ \A d, e \in s : d[1] = e[1] => d = e }

\* Tcl_Eval of one command: the command fails when no proc has that name
\* or when the proc does not take that many arguments; otherwise the body
\* runs and the outcome is the one of the body.
TclRuns(p, cmd, args) == cmd \in DOMAIN p /\ p[cmd] = Len(args)
TclEval(p, cmd, args, failing) ==
    IF TclRuns(p, cmd, args) /\ cmd \notin failing THEN "TCL_OK" ELSE "TCL_ERROR"

\* The chain of Tcl_Eval calls of a trigger function: each attempt is
\* <<proc name, arguments>>; the first one that returns TCL_OK ends the
\* chain with 1, and the chain returns 0 when all have failed.  failing is
\* the set of procs whose body ends in an error.
RECURSIVE housemech_rule_try(_, _, _)
housemech_rule_try(p, attempts, failing) ==
    IF attempts = <<>> THEN [ret |-> 0, invoked |-> <<>>]
    ELSE LET a == Head(attempts)
             ran == IF TclRuns(p, a[1], a[2]) THEN <<a>> ELSE <<>>
         IN  IF TclEval(p, a[1], a[2], failing) = "TCL_OK"
             THEN [ret |-> 1, invoked |-> ran]
             ELSE LET rest == housemech_rule_try(p, Tail(attempts), failing)
                  IN  [ret |-> rest.ret, invoked |-> ran \o rest.invoked]

\* House::event state category name action, bootstrap.tcl: the action
\* is recorded unless it is the empty string.
EventIndex(category, name) == category \o "." \o name \o ".action"
HouseEventState(es, category, name, action) ==
    IF action # ""
    THEN [i \in DOMAIN es \cup {EventIndex(category, name)} |->
             IF i = EventIndex(category, name) THEN action ELSE es[i]]
    ELSE es
\* House::event state category name, without action: the action recorded
\* for the event, or the empty string when there is none.
HouseEventQuery(es, category, name) ==
    IF EventIndex(category, name) \in DOMAIN es
    THEN es[EventIndex(category, name)] ELSE ""

EventAttempts(category, name, action) ==
    << <<"EVENT." \o category \o "." \o name \o "." \o action, <<>> >>,
       <<"EVENT." \o category \o "." \o name, <<action>> >>,
       <<"EVENT." \o category, <<name, action>> >> >>

\* housemech_rule_trigger_event: House::event state is evaluated first, so
\* that seen is what the bodies of the rules get from House::event state
\* category name.
housemech_rule_trigger_event(p, es, category, name, action, failing) ==
    LET act == IF action = NULL THEN "" ELSE action
        recorded == IF action = NULL THEN es
                    ELSE HouseEventState(es, category, name, action)
        r == housemech_rule_try(p, EventAttempts(category, name, act), failing)
    IN  [EventState |-> recorded,
         seen |-> HouseEventQuery(recorded, category, name),
         ret |-> r.ret, invoked |-> r.invoked]

SensorAttempts(location, name, value) ==
    << <<"SENSOR." \o location \o "." \o name, <<value>> >>,
       <<"SENSOR." \o location, <<name, value>> >> >>

\* housemech_rule_trigger_sensor
housemech_rule_trigger_sensor(p, location, name, value, failing) ==
    housemech_rule_try(p, SensorAttempts(location, name, value), failing)

\* A chain that goes on to a rule that takes the name and the state
ControlAttemptsWithFallback(name, state) ==
    << <<"POINT." \o name, <<state>> >>, <<"EVENT.A", <<name, state>> >> >>

ControlAttempts(name, state) == << <<"POINT." \o name, <<state>> >> >>

\* housemech_rule_trigger_control
housemech_rule_trigger_control(p, name, state, failing) ==
    housemech_rule_try(p, ControlAttempts(name, state), failing)

\* What the bodies of the rules do is not part of the program: a trigger is
\* given the set of procs whose body ends in an error, among those it can run.
Outcomes(p, attempts) ==
    SUBSET { attempts[i][1] : i \in { j \in DOMAIN attempts :
                                        TclRuns(p, attempts[j][1], attempts[j][2]) } }

\* housemech_rule_listener: the script is evaluated in the interpreter,
\* which keeps the procs defined before unless the script redefines them.
LoadScript(s) ==
    /\ procs' = [k \in DOMAIN procs \cup {d[1] : d \in s} |->
                    IF \E d \in s : d[1] = k
                    THEN (CHOOSE d \in s : d[1] = k)[2] ELSE procs[k]]
    /\ HouseMechReady' = TRUE
    /\ last' = [NoCall EXCEPT !.op = "load"]
    /\ UNCHANGED <<EventState, streamVars, controlVars, now>>

TriggerEvent(category, name, action, failing) ==
    LET r == housemech_rule_trigger_event(procs, EventState,
                                          category, name, action, failing)
    IN  /\ EventState' = r.EventState
        /\ last' = [NoCall EXCEPT !.op = "trigger_event", !.provider = category,
                       !.name = name, !.text = action, !.str = r.seen,
                       !.ret = r.ret, !.invoked = r.invoked]
        /\ UNCHANGED <<procs, HouseMechReady, streamVars, controlVars, now>>

TriggerSensor(location, name, value, failing) ==
    LET r == housemech_rule_trigger_sensor(procs, location, name, value, failing)
    IN  /\ last' = [NoCall EXCEPT !.op = "trigger_sensor", !.provider = location,
                       !.name = name, !.text = value,
                       !.ret = r.ret, !.invoked = r.invoked]
        /\ UNCHANGED <<ruleVars, streamVars, controlVars, now>>

TriggerControl(name, state, failing) ==
    LET r == housemech_rule_trigger_control(procs, name, state, failing)
    IN  /\ last' = [NoCall EXCEPT !.op = "trigger_control",
                       !.name = name, !.text = state,
                       !.ret = r.ret, !.invoked = r.invoked]
        /\ UNCHANGED <<ruleVars, streamVars, controlVars, now>>

----------------------------------------------------------------------------
(***************************************************************************)
(* The locked-source pollers, housemech_event.c and housemech_sensor.c.    *)
(* The two files hold the same statics and the same handlers, one set per  *)
(* stream; module says which of the two this instance is.                  *)
(***************************************************************************)

HistoryProviders == {"http://h1", "http://h2"}

HOUSE_EVENT_CYCLE == 2
HOUSE_SENSOR_CYCLE == 2
\* (long long)time(0) * 1000, housemech_{event,sensor}_initialize
InitialTimeScale == 1000
\* latesttime - 5, the leniency of the since parameter
SinceLeniency == 5

\* The records a provider may report, as <<timestamp, id>>.  Record 5 is
\* older than record 4 and record 9 older than record 7 (timestamps out of
\* sequence), and record 3 is older than the time the service started.
MaxBatch == 4
TimeOf(id) == CASE id = 3 -> 1003 [] id = 4 -> 1040 [] id = 5 -> 1020
                [] id = 7 -> 1070 [] OTHER -> 1060
Record(id) == <<TimeOf(id), id>>
\* The ids that the log of a provider holds, at two moments.  A fetch
\* response lists the newest records of the log, MaxBatch at most, by
\* descending or by ascending id.
Logs == { <<3, 4>>, <<3, 5, 7, 9>> }
RecordIds == UNION { { l[i] : i \in DOMAIN l } : l \in Logs }
RECURSIVE Descending(_)
Descending(S) ==
    IF S = {} THEN <<>>
    ELSE LET m == CHOOSE x \in S : \A y \in S : y <= x
         IN  <<Record(m)>> \o Descending(S \ {m})
RECURSIVE Reverse(_)
Reverse(q) == IF q = <<>> THEN <<>> ELSE Append(Reverse(Tail(q)), Head(q))
Runs == { {} } \cup
        { { l[i] : i \in { j \in DOMAIN l : j > Len(l) - k } } :
            k \in 1..MaxBatch, l \in Logs }
Batches == { Descending(S) : S \in Runs } \cup { Reverse(Descending(S)) : S \in Runs }
\* The latest id that a snapshot may report.
LatestValues == {0, 5, 9}

\* What echttp_redirected returns for a response: 0 when the request was
\* redirected and has to be submitted again, else the HTTP status.
Statuses == {0, 200, 500}
\* The body of a response: text that does not parse, no token at all, a
\* document without .host, a document without .saga.latest, or a complete one.
Bodies == {"syntax", "nodata", "nohost", "nolatest", "ok"}

\* The responses to a snapshot request, as <<status, body, latest id,
\* almanac ready, fetch request can be opened>>, and to a fetch request, as
\* <<status, body, batch>>: what the handler does not read is not varied.
SnapshotResponses ==
    { <<st, "ok", 0, TRUE, TRUE>> : st \in Statuses \ {200} }
    \cup { <<200, b, 0, TRUE, TRUE>> : b \in Bodies \ {"ok"} }
    \cup { <<200, "ok", l, f[1], f[2]>> :
             l \in LatestValues,
             f \in { <<TRUE, TRUE>>, <<FALSE, TRUE>>, <<TRUE, FALSE>> } }
FetchResponses ==
    { <<st, "ok", <<>> >> : st \in Statuses \ {200} }
    \cup { <<200, b, <<>> >> : b \in Bodies \ {"ok"} }
    \cup { <<200, "ok", batch>> : batch \in Batches }

\* The fields of a record that the dispatcher is given.
EventFields == <<"A", "B", "C">>
SensorFields == <<"L", "N", "1">>

\* housemech_rule_ready; housealmanac_tonight_ready is an input.
housemech_rule_ready(almanac) == HouseMechReady /\ almanac
\* housemech_control_ready
housemech_control_ready == Len(Controls) > 0

\* A guard that stops the provider of the lock instead of the others
LockedOnIt(server, provider) == server # NULL /\ provider = server

\* A guard that lets every provider through
AnyProvider(server, provider) == FALSE

\* The guard at the head of every response handler and of the check.
NotLockedOn(server, provider) == server # NULL /\ provider # server

\* A failure label that would keep the lock.
KeepLock(server) == server
\* The failure label of the response handlers.
DropLock(server) == NULL

\* A walk of the batch from its first record to its last, the other way round
\* than the code walks it.
RECURSIVE WalkFirstToLast(_, _, _)
WalkFirstToLast(batch, i, acc) ==
    IF i < 1 THEN acc
    ELSE LET rec == batch[Len(batch) - i + 1]
         IN  IF rec[2] <= acc.id
             THEN WalkFirstToLast(batch, i - 1, acc)
             ELSE WalkFirstToLast(batch, i - 1,
                     [id |-> rec[2],
                      accepted |-> Append(acc.accepted, rec),
                      latesttime |-> IF rec[1] > acc.latesttime
                                     THEN rec[1] ELSE acc.latesttime])

\* A walk that accepts every record, whatever the cursor
RECURSIVE WalkWithoutCursor(_, _, _)
WalkWithoutCursor(batch, i, acc) ==
    IF i < 1 THEN acc
    ELSE LET rec == batch[i]
         IN  WalkWithoutCursor(batch, i - 1,
                [id |-> rec[2],
                 accepted |-> Append(acc.accepted, rec),
                 latesttime |-> IF rec[1] > acc.latesttime
                                THEN rec[1] ELSE acc.latesttime])

\* The walk of a batch, from its last record to its first: a record is
\* accepted when its id is above the cursor, which it then becomes.  Returns
\* the cursor, the accepted records in the order they were accepted and the
\* latest timestamp among them.
RECURSIVE housemech_response_walk(_, _, _)
housemech_response_walk(batch, i, acc) ==
    IF i < 1 THEN acc
    ELSE LET rec == batch[i]
         IN  IF rec[2] <= acc.id
             THEN housemech_response_walk(batch, i - 1, acc)
             ELSE housemech_response_walk(batch, i - 1,
                     [id |-> rec[2],
                      accepted |-> Append(acc.accepted, rec),
                      latesttime |-> IF rec[1] > acc.latesttime
                                     THEN rec[1] ELSE acc.latesttime])

\* A since parameter that follows the latest batch, forward or backward
SinceOfBatch(latesttime, since) == latesttime - SinceLeniency

\* Move the since parameter forward, never backward.
MoveSince(latesttime, since) ==
    IF latesttime - SinceLeniency > since THEN latesttime - SinceLeniency ELSE since

\* The dispatch of the accepted records, one trigger call per record.  The
\* handlers ignore what the trigger returns, so that the outcome of the rules
\* changes nothing here: what is left of the call is the last action that
\* triggerEvent records.
RECURSIVE DispatchAll(_, _, _, _)
DispatchAll(m, p, es, records) ==
    IF records = <<>> THEN es
    ELSE DispatchAll(m, p,
            IF m = "event"
            THEN housemech_rule_trigger_event(p, es, EventFields[1],
                     EventFields[2], EventFields[3], {}).EventState
            ELSE es,
            Tail(records))

FailedResponse(status, body) == status # 200 \/ body \in {"syntax", "nodata", "nohost"}

\* A lock that is taken with the cursor as it is
CursorKept(server, id) == id

\* The cursor from which the batch is walked: 0 when the handler has just
\* taken the lock.
CursorOnLock(server, id) == IF server = NULL THEN 0 ELSE id

\* housemech_event_response, housemech_sensor_response: the new lock, cursor
\* and since parameter, the records dispatched, and whether the request is
\* submitted again.
housemech_response(server, id, since, provider, status, body, batch) ==
    LET same == [server |-> server, id |-> id, since |-> since,
                 accepted |-> <<>>, again |-> FALSE]
    IN  IF NotLockedOn(server, provider) THEN same
        ELSE IF status = 0 THEN [same EXCEPT !.again = TRUE]
        ELSE IF FailedResponse(status, body) \/ body = "nolatest"
        THEN [same EXCEPT !.server = DropLock(server)]
        ELSE LET locked == IF server = NULL THEN provider ELSE server
                 start == CursorOnLock(server, id)
                 w == housemech_response_walk(batch, Len(batch),
                         [id |-> start, accepted |-> <<>>, latesttime |-> 0])
             IN  [server |-> locked, id |-> w.id,
                  since |-> IF Len(batch) > 0 THEN MoveSince(w.latesttime, since)
                            ELSE since,
                  accepted |-> w.accepted, again |-> FALSE]

\* A cursor that both pollers reset for a lower value
CursorResetAlways(m, id, latestvalue) == IF id > latestvalue THEN 0 ELSE id

\* The cursor after a snapshot that reports latestvalue, while locked: only
\* the sensor poller takes a lower value for a restart of the provider.
CursorOnSnapshot(m, id, latestvalue) ==
    IF m = "sensor" /\ id > latestvalue THEN 0 ELSE id

\* A snapshot that always counts as a change
AlwaysNew(id, latestvalue) == FALSE

\* The snapshot reports the id of the cursor: no change.
NoChange(id, latestvalue) == id = latestvalue

\* A fetch that is submitted without looking at the readiness
FetchUngated(ready, canopen) == canopen

\* The fetch is submitted when the rules and the controls are ready and
\* echttp_client does not fail.
FetchAllowed(ready, canopen) == ready /\ canopen

\* housemech_event_check_response, housemech_sensor_check_response: the new
\* lock and cursor, whether a fetch is submitted, and whether the request is
\* submitted again.
housemech_check_response(m, server, id, provider, status, body, latestvalue, ready, canopen) ==
    LET same == [server |-> server, id |-> id, fetch |-> FALSE, again |-> FALSE]
    IN  IF NotLockedOn(server, provider) THEN same
        ELSE IF status = 0 THEN [same EXCEPT !.again = TRUE]
        ELSE IF FailedResponse(status, body)
        THEN [same EXCEPT !.server = DropLock(server)]
        ELSE IF body = "nolatest" THEN same
        ELSE IF server # NULL /\ NoChange(id, latestvalue) THEN same
        ELSE LET cursor == IF server = NULL THEN id
                           ELSE CursorOnSnapshot(m, id, latestvalue)
             IN  [same EXCEPT !.id = cursor, !.fetch = FetchAllowed(ready, canopen)]

\* housemech_event_check, housemech_sensor_check, called for each provider
\* that the directory lists, in the order of the list: cannotopen is the set
\* of providers for which echttp_client fails.
RECURSIVE housemech_check(_, _, _, _)
housemech_check(dir, server, cannotopen, asked) ==
    IF dir = <<>> THEN [server |-> server, asked |-> asked]
    ELSE LET provider == Head(dir)
         IN  IF NotLockedOn(server, provider)
             THEN housemech_check(Tail(dir), server, cannotopen, asked)
             ELSE IF provider \in cannotopen
             THEN housemech_check(Tail(dir), NULL, cannotopen, asked)
             ELSE housemech_check(Tail(dir), server, cannotopen,
                                  Append(asked, provider))

LockHeldAfterTick(server, count) == server

\* The lock at the end of a poll tick that submitted count requests.
LockAfterTick(server, count) == IF count = 0 THEN NULL ELSE server

Cycle(m) == IF m = "event" THEN HOUSE_EVENT_CYCLE ELSE HOUSE_SENSOR_CYCLE

Range(q) == { q[i] : i \in DOMAIN q }
Directories(S) == { q \in UNION { [1..n -> S] : n \in 0..Cardinality(S) } :
                      \A i, j \in DOMAIN q : q[i] = q[j] => i = j }
Request(kind, provider) == <<kind, provider>>

\* The history variable lostLock after a handler that was given the lock
\* before and left the lock after: by is the provider whose response the
\* handler was given, or NULL for a poll tick.
LostLockAfter(before, after, by) ==
    IF before # NULL /\ after = NULL THEN by ELSE lostLock

\* The history variable sessionMax after a handler that has left the lock
\* after and has dispatched these records: the highest id dispatched since
\* the lock was taken, 0 when there is no lock.
SessionMaxAfter(after, accepted) ==
    IF after = NULL THEN 0
    ELSE LET ids == {sessionMax} \cup { accepted[i][2] : i \in DOMAIN accepted }
         IN  CHOOSE x \in ids : \A y \in ids : y <= x

\* housemech_event_background, housemech_sensor_background
HistoryBackground(dir, cannotopen) ==
    /\ IF now < NextCycle
       THEN /\ UNCHANGED <<HouseMechCurrentServer, NextCycle, pendingH, lostLock,
                         sessionMax>>
            /\ last' = [NoCall EXCEPT !.op = "history_background"]
       ELSE LET c == housemech_check(dir, HouseMechCurrentServer, cannotopen, <<>>)
            IN  /\ NextCycle' = now + Cycle(module)
                /\ HouseMechCurrentServer' = LockAfterTick(c.server, Len(c.asked))
                /\ lostLock' = LostLockAfter(HouseMechCurrentServer,
                                    LockAfterTick(c.server, Len(c.asked)), NULL)
                /\ sessionMax' = SessionMaxAfter(
                                    LockAfterTick(c.server, Len(c.asked)), <<>>)
                /\ pendingH' = pendingH \cup { Request("check", c.asked[i]) :
                                                 i \in DOMAIN c.asked }
                /\ last' = [NoCall EXCEPT !.op = "history_background",
                               !.ret = 1, !.batch = dir, !.failed = cannotopen,
                               !.provider = IF HouseMechCurrentServer = NULL
                                            THEN "" ELSE HouseMechCurrentServer,
                               !.sent = [i \in DOMAIN c.asked |->
                                            Request("check", c.asked[i])]]
    /\ UNCHANGED <<ruleVars, module, HouseMechLatestId, HouseMechLatestTime,
                   controlVars, now>>

\* The completion of a snapshot request (/log/latest)
HistoryCheckResponse(provider, status, body, latestvalue, almanac, canopen) ==
    /\ Request("check", provider) \in pendingH
    /\ LET r == housemech_check_response(module, HouseMechCurrentServer,
                   HouseMechLatestId, provider, status, body, latestvalue,
                   housemech_rule_ready(almanac) /\ housemech_control_ready,
                   canopen)
       IN  /\ HouseMechCurrentServer' = r.server
           /\ lostLock' = LostLockAfter(HouseMechCurrentServer, r.server, provider)
           /\ sessionMax' = SessionMaxAfter(r.server, <<>>)
           /\ HouseMechLatestId' = r.id
           /\ pendingH' = (IF r.again THEN pendingH
                           ELSE pendingH \ {Request("check", provider)})
                          \cup (IF r.fetch THEN {Request("fetch", provider)} ELSE {})
           /\ last' = [NoCall EXCEPT !.op = "check_response", !.provider = provider,
                          !.num = status, !.text = body, !.ret = latestvalue,
                          !.wasId = HouseMechLatestId,
                          !.ready = housemech_rule_ready(almanac),
                          !.canopen = canopen,
                          !.sent = IF r.fetch THEN <<Request("fetch", provider)>>
                                   ELSE <<>>]
    /\ UNCHANGED <<ruleVars, module, HouseMechLatestTime, NextCycle,
                   controlVars, now>>

\* The completion of a fetch request (/log/events?since=, /log/sensor/data?since=)
HistoryResponse(provider, status, body, batch) ==
    /\ Request("fetch", provider) \in pendingH
    /\ LET r == housemech_response(HouseMechCurrentServer, HouseMechLatestId,
                   HouseMechLatestTime, provider, status, body, batch)
       IN  /\ HouseMechCurrentServer' = r.server
           /\ lostLock' = LostLockAfter(HouseMechCurrentServer, r.server, provider)
           /\ sessionMax' = SessionMaxAfter(r.server, r.accepted)
           /\ HouseMechLatestId' = r.id
           /\ HouseMechLatestTime' = r.since
           /\ EventState' = DispatchAll(module, procs, EventState, r.accepted)
           /\ pendingH' = IF r.again THEN pendingH
                          ELSE pendingH \ {Request("fetch", provider)}
           /\ last' = [NoCall EXCEPT !.op = "response", !.provider = provider,
                          !.num = status, !.text = body,
                          !.wasId = HouseMechLatestId,
                          !.batch = batch,
                          !.dispatched = [i \in DOMAIN r.accepted |-> r.accepted[i][2]]]
    /\ UNCHANGED <<procs, HouseMechReady, module, NextCycle, controlVars, now>>

\* One second passes.
MaxPollTime == 3
HistoryClockTick ==
    /\ now < MaxPollTime
    /\ now' = now + 1
    /\ last' = [NoCall EXCEPT !.op = "clock"]
    /\ UNCHANGED <<ruleVars, streamVars, controlVars>>

----------------------------------------------------------------------------
(***************************************************************************)
(* The control point registry, housemech_control.c.                        *)
(*                                                                         *)
(* The functions of the file are operators on a record g that holds the    *)
(* statics Controls and ControlsActive, and what the handler has done so   *)
(* far: the requests submitted (sent), the rules whose body was run        *)
(* (invoked) and what the calls made by these bodies returned (answers).   *)
(***************************************************************************)

ControlProviders == {"http://c1", "http://c2"}
Names == {"p1", "p2"}
PointStates == {"on", "off"}
\* The pulse of a start, in seconds: 0 is no pulse.
MaxPulse == 1
Pulses == {0, MaxPulse}

\* A request in flight: a discovery request is <<"status", provider, "", "">>
\* and an actuation request <<"set", provider, point, state>>, provider being
\* the server the request was sent to.  The origin given to echttp_submit is
\* the provider for the former and the control point for the latter.
ControlRequest(kind, provider, name, state) == <<kind, provider, name, state>>

\* An entry that is given a provider when it is created
NewControlOwned(name) ==
    [name |-> name, state |-> NULL, status |-> "u", deadline |-> 0,
     url |-> "http://c1"]

\* The entry that housemech_control_search adds
NewControl(name) ==
    [name |-> name, state |-> NULL, status |-> "u", deadline |-> 0, url |-> ""]

\* A search that adds an entry without looking for the name
SearchAppends(cs, name) ==
    [Controls |-> Append(cs, NewControl(name)), i |-> Len(cs) + 1]

\* housemech_control_search: the index of the entry of that name, which is
\* added at the end of the array when there is none.
housemech_control_search(cs, name) ==
    IF \E i \in DOMAIN cs : cs[i].name = name
    THEN [Controls |-> cs,
          i |-> CHOOSE i \in DOMAIN cs :
                   /\ cs[i].name = name
                   /\ \A j \in 1..(i - 1) : cs[j].name # name]
    ELSE [Controls |-> Append(cs, NewControl(name)), i |-> Len(cs) + 1]

\* A start that leaves the deadline as it is
KeepDeadline(deadline, pulse, t) == deadline

\* The deadline that housemech_control_start leaves, at time t
PulseDeadline(deadline, pulse, t) == IF pulse > 0 THEN t + pulse ELSE deadline

\* housemech_control_start, at time t
housemech_control_start(g, name, pulse, canopen, t) ==
    LET s == housemech_control_search(g.Controls, name)
        control == s.Controls[s.i]
    IN  IF control.url = "" THEN [g EXCEPT !.Controls = s.Controls, !.ret = 0]
        ELSE IF ~canopen THEN [g EXCEPT !.Controls = s.Controls, !.ret = 0]
        ELSE [g EXCEPT
                !.Controls = [s.Controls EXCEPT
                                ![s.i].deadline = PulseDeadline(@, pulse, t),
                                ![s.i].status = "a"],
                !.ControlsActive = 1,
                !.sent = Append(@, ControlRequest("set", control.url, name, "on")),
                !.ret = 1]

\* A stop that marks the point inactive and submits nothing
StopWithoutRequest(g, i, canopen) ==
    [g EXCEPT !.Controls = [@ EXCEPT ![i].status = "i"]]

\* housemech_control_stop, for the entry at index i
housemech_control_stop(g, i, canopen) ==
    LET control == g.Controls[i]
    IN  IF control.url = "" THEN g
        ELSE IF ~canopen THEN g
        ELSE [g EXCEPT
                !.Controls = [@ EXCEPT ![i].status = "i"],
                !.sent = Append(@, ControlRequest("set", control.url,
                                                  control.name, "off"))]

\* A cancel of all the points that stops every point that is active, with a
\* deadline or without
RECURSIVE CancelEvery(_, _, _)
CancelEvery(g, i, canopen) ==
    IF i > Len(g.Controls) THEN g
    ELSE IF g.Controls[i].status = "a"
    THEN LET h == housemech_control_stop(g, i, canopen)
         IN  CancelEvery([h EXCEPT !.Controls = [@ EXCEPT ![i].deadline = 0]],
                         i + 1, canopen)
    ELSE CancelEvery(g, i + 1, canopen)

\* The loop of housemech_control_cancel when no name is given, from index i on
RECURSIVE CancelFrom(_, _, _)
CancelFrom(g, i, canopen) ==
    IF i > Len(g.Controls) THEN g
    ELSE IF g.Controls[i].deadline # 0
    THEN LET h == housemech_control_stop(g, i, canopen)
         IN  CancelFrom([h EXCEPT !.Controls = [@ EXCEPT ![i].deadline = 0]],
                        i + 1, canopen)
    ELSE CancelFrom(g, i + 1, canopen)

\* housemech_control_cancel: name is NULL when no name is given
housemech_control_cancel(g, name, canopen) ==
    IF name # NULL
    THEN LET s == housemech_control_search(g.Controls, name)
             f == [g EXCEPT !.Controls = s.Controls]
         IN  IF s.Controls[s.i].url # ""
             THEN LET h == housemech_control_stop(f, s.i, canopen)
                  IN  [h EXCEPT !.Controls = [@ EXCEPT ![s.i].deadline = 0]]
             ELSE f
    ELSE [CancelFrom(g, 1, canopen) EXCEPT !.ControlsActive = 0]

\* A state query that answers "off" when no state is stored
StateOrOff(state) == IF state = NULL THEN "off" ELSE state

\* What housemech_control_state returns for the state that an entry holds
StateText(state) == IF state = NULL THEN "" ELSE state

\* housemech_control_state
housemech_control_state(g, name) ==
    LET s == housemech_control_search(g.Controls, name)
        control == s.Controls[s.i]
    IN  [g EXCEPT !.Controls = s.Controls,
                  !.str = StateText(control.state)]

\* housemech_rule_control_cmd: the command House::control of the rules.  A
\* call is <<subcommand, point, pulse>>; calls is what the body of a rule
\* does, and answers is what became of each call.
RECURSIVE housemech_rule_control_cmd(_, _, _, _)
housemech_rule_control_cmd(g, calls, canopen, t) ==
    IF calls = <<>> THEN g
    ELSE LET c == Head(calls)
             h == CASE c[1] = "start" ->
                         housemech_control_start(g, c[2], c[3], canopen, t)
                    [] c[1] = "cancel" ->
                         housemech_control_cancel(g, c[2], canopen)
                    [] OTHER -> housemech_control_state(g, c[2])
             answer == CASE c[1] = "start" -> <<c[1], c[2], h.ret>>
                         [] c[1] = "cancel" -> <<c[1], c[2], 0>>
                         [] OTHER -> <<c[1], c[2], h.str>>
         IN  housemech_rule_control_cmd([h EXCEPT !.answers = Append(@, answer)],
                                        Tail(calls), canopen, t)

\* The body of a response: text that does not parse (or holds no token), a
\* document without .control.status, one where .control.status is empty,
\* or one where it lists points, each with or without a state.
ReportKinds == {"syntax", "nocontrol", "empty", "ok"}

\* A comparison that takes every reported state for a change
AnyState(stored, state) == TRUE

\* The comparison of the reported state with the stored one
StateChanged(stored, state) == state # stored

\* The loop of housemech_control_update over the points that the report
\* lists: p is the table of procs, and body is what the body of a rule POINT.x
\* does when it runs.
RECURSIVE UpdateFrom(_, _, _, _, _, _, _)
UpdateFrom(g, provider, entries, p, body, canopen, t) ==
    IF entries = <<>> THEN g
    ELSE LET name == Head(entries)[1]
             state == Head(entries)[2]
             s == housemech_control_search(g.Controls, name)
             i == s.i
             routed == IF s.Controls[i].url # provider
                       THEN [s.Controls EXCEPT ![i].url = provider,
                                               ![i].status = "i"]
                       ELSE s.Controls
             g1 == [g EXCEPT !.Controls = routed]
             g2 == IF state = NULL THEN g1
                   ELSE IF routed[i].state # NULL
                   THEN IF StateChanged(routed[i].state, state)
                        THEN LET r == housemech_rule_trigger_control(p, name, state, {})
                                 g3 == IF r.invoked # <<>>
                                       THEN housemech_rule_control_cmd(
                                               [g1 EXCEPT !.invoked = @ \o r.invoked],
                                               body, canopen, t)
                                       ELSE g1
                             IN  [g3 EXCEPT !.Controls = [@ EXCEPT ![i].state = state],
                                            !.triggered = Append(@, <<name, state>>)]
                        ELSE g1
                   ELSE [g1 EXCEPT !.Controls = [@ EXCEPT ![i].state = state]]
         IN  UpdateFrom(g2, provider, Tail(entries), p, body, canopen, t)

\* housemech_control_update
housemech_control_update(g, provider, kind, entries, p, body, canopen, t) ==
    IF kind # "ok" \/ entries = <<>> THEN g
    ELSE UpdateFrom(g, provider, entries, p, body, canopen, t)

\* housemech_control_result, for the control point of that name (the origin
\* of the request); status is what echttp_redirected returns.
housemech_control_result(g, name, status, kind, entries, p, body, canopen, t) ==
    IF status = 0 THEN [g EXCEPT !.again = TRUE]
    ELSE LET i == housemech_control_search(g.Controls, name).i
             g1 == IF status # 200
                   THEN [g EXCEPT !.Controls = [@ EXCEPT ![i].status = "e",
                                                         ![i].deadline = 0]]
                   ELSE g
         IN  housemech_control_update(g1, g1.Controls[i].url, kind, entries,
                                      p, body, canopen, t)

\* A completion that does not look at the status of the response
DiscoveredAnyStatus(g, provider, status, kind, entries, p, body, canopen, t) ==
    IF status = 0 THEN [g EXCEPT !.again = TRUE]
    ELSE housemech_control_update(g, provider, kind, entries, p, body, canopen, t)

\* housemech_control_discovered
housemech_control_discovered(g, provider, status, kind, entries, p, body, canopen, t) ==
    IF status = 0 THEN [g EXCEPT !.again = TRUE]
    ELSE IF status # 200 THEN g
    ELSE housemech_control_update(g, provider, kind, entries, p, body, canopen, t)

\* housemech_control_scan_server, called for each provider that the
\* directory lists, in the order of the list
RECURSIVE housemech_control_scan_server(_, _, _)
housemech_control_scan_server(d, dir, cannotopen) ==
    IF dir = <<>> THEN d
    ELSE LET provider == Head(dir)
             e == [d EXCEPT !.Providers = Append(@, provider)]
         IN  housemech_control_scan_server(
                 IF provider \in cannotopen THEN e
                 ELSE [e EXCEPT !.sent = Append(@,
                          ControlRequest("status", provider, "", ""))],
                 Tail(dir), cannotopen)

\* housemech_control_discover, at time t # 0: changed is what
\* housediscover_changed returns.
DiscoveryPeriod == 2

\* A discovery that scans once and never again
DiscoverOnce(d, t, changed, dir, cannotopen) ==
    IF d.latestdiscovery > 0 THEN d
    ELSE housemech_control_scan_server(
             [d EXCEPT !.latestdiscovery = t, !.Providers = <<>>, !.pass = TRUE],
             dir, cannotopen)

\* A discovery that scans at every tick
DiscoverEveryTick(d, t, changed, dir, cannotopen) ==
    housemech_control_scan_server(
        [d EXCEPT !.latestdiscovery = t, !.Providers = <<>>, !.pass = TRUE],
        dir, cannotopen)

housemech_control_discover(d, t, changed, dir, cannotopen) ==
    LET latest == IF d.latestdiscovery > 0 /\ changed THEN 0
                  ELSE d.latestdiscovery
    IN  IF t <= latest + DiscoveryPeriod
        THEN [d EXCEPT !.latestdiscovery = latest]
        ELSE housemech_control_scan_server(
                 [d EXCEPT !.latestdiscovery = t, !.Providers = <<>>, !.pass = TRUE],
                 dir, cannotopen)

\* A pulse that ends when the clock reaches the deadline
ExpiredAt(deadline, t) == deadline <= t

\* The end of a pulse, in housemech_control_background
Expired(deadline, t) == deadline < t

\* A scan that ends the pulses and leaves the flag down
RECURSIVE ExpireWithoutFlag(_, _, _)
ExpireWithoutFlag(g, i, t) ==
    IF i > Len(g.Controls) THEN g
    ELSE IF g.Controls[i].deadline # 0 /\ Expired(g.Controls[i].deadline, t)
    THEN ExpireWithoutFlag([g EXCEPT !.Controls = [@ EXCEPT ![i].deadline = 0,
                                                            ![i].status = "i"]],
                           i + 1, t)
    ELSE ExpireWithoutFlag(g, i + 1, t)

\* The loop of housemech_control_background, from index i on
RECURSIVE ExpireFrom(_, _, _)
ExpireFrom(g, i, t) ==
    IF i > Len(g.Controls) THEN g
    ELSE IF g.Controls[i].deadline # 0
    THEN IF Expired(g.Controls[i].deadline, t)
         THEN ExpireFrom([g EXCEPT !.Controls = [@ EXCEPT ![i].deadline = 0,
                                                          ![i].status = "i"]],
                         i + 1, t)
         ELSE ExpireFrom([g EXCEPT !.ControlsActive = 1], i + 1, t)
    ELSE ExpireFrom(g, i + 1, t)

\* housemech_control_background, up to the call of the discovery
housemech_control_background(g, t) ==
    IF g.ControlsActive # 0
    THEN ExpireFrom([g EXCEPT !.ControlsActive = 0], 1, t)
    ELSE g

\* The record g at the start of a handler; answered is the request that the
\* handler is the completion of, if any, and again says that the handler has
\* submitted it again.
Registry ==
    [Controls |-> Controls, ControlsActive |-> ControlsActive,
     sent |-> <<>>, invoked |-> <<>>, triggered |-> <<>>, answers |-> <<>>,
     ret |-> 0, str |-> "", again |-> FALSE, answered |-> {}]

\* The points that the rules start and cancel, and what the body of a rule
\* POINT.x does: nothing, or one call of House::control.
Actuated == {"p1"}
RuleBodies ==
    { <<>> }
    \cup { << <<"start", n, MaxPulse>> >> : n \in Actuated }
    \cup { << <<"cancel", n, 0>> >> : n \in Actuated }
    \cup { << <<"state", n, 0>> >> : n \in Actuated }

\* The points that a report lists, as <<name, state>>, the state being NULL
\* when the report has none for the point: reports that list the point p1,
\* with a state or with none, and reports that list p1 alone or p1 and p2,
\* without any state.
PointReports == { << <<"p1", st>> >> : st \in PointStates \cup {NULL} }
RoutingReports == { << <<"p1", NULL>> >>, << <<"p1", NULL>>, <<"p2", NULL>> >> }
ReportBodies(reports) ==
    { <<k, <<>> >> : k \in ReportKinds \ {"ok"} }
    \cup { <<"ok", e>> : e \in reports }
\* The responses to a discovery request and to an actuation request, as
\* <<status, kind of body, points listed>>: a redirected request has no body
\* to read, and a provider that fails sends text or a status document.
DiscoveredResponses(reports) ==
    { <<0, "syntax", <<>> >>, <<500, "syntax", <<>> >> }
    \cup { <<500, "ok", e>> : e \in reports }
    \cup { <<200, b[1], b[2]>> : b \in ReportBodies(reports) }
ResultResponses(reports) ==
    { <<0, "syntax", <<>> >> }
    \cup { <<st, b[1], b[2]>> : st \in {200, 500}, b \in ReportBodies(reports) }

\* At most MaxPending control requests are in flight, and the clock stops
\* at MaxTime.
MaxPending == 2
MaxTime == 5

\* The history variable reported after a body that lists these points was
\* given to housemech_control_update: the state that the latest body to
\* carry one for a point has carried.
RECURSIVE Fold(_, _)
Fold(rep, entries) ==
    IF entries = <<>> THEN rep
    ELSE LET name == Head(entries)[1]
             state == Head(entries)[2]
         IN  Fold(IF state = NULL THEN rep
                  ELSE [n \in DOMAIN rep \cup {name} |->
                           IF n = name THEN state ELSE rep[n]],
                  Tail(entries))

\* The history variable namedBy after a body of that provider that lists
\* these points was given to housemech_control_update: the provider whose
\* body is the latest to list a point.
NamedIn(by, provider, entries) ==
    [n \in DOMAIN by \cup { entries[i][1] : i \in DOMAIN entries } |->
        IF \E i \in DOMAIN entries : entries[i][1] = n THEN provider ELSE by[n]]

\* The statics after a handler that leaves g.  The handler is given
\* canopen = FALSE (echttp_client fails) only if it opens a request, which is
\* what tried says; no more than MaxPending requests are in flight.
Stored(g, canopen, tried) ==
    /\ canopen \/ tried
    /\ Controls' = g.Controls
    /\ ControlsActive' = g.ControlsActive
    /\ pendingC' = (IF g.again THEN pendingC ELSE pendingC \ g.answered)
                   \cup Range(g.sent)
    /\ Cardinality(pendingC') <= MaxPending

\* A rule called by another module (or the script itself, when it is loaded)
\* calls House::control start
ControlStart(name, pulse, canopen) ==
    LET g == housemech_control_start(Registry, name, pulse, canopen, now)
        tried == housemech_control_start(Registry, name, pulse, TRUE, now).sent # <<>>
    IN  /\ Stored(g, canopen, tried)
        /\ last' = [NoCall EXCEPT !.op = "start", !.name = name, !.num = pulse,
                       !.canopen = canopen, !.ret = g.ret]
        /\ UNCHANGED <<ruleVars, streamVars, Providers, latestdiscovery,
                       reported, namedBy, served, now>>

\* House::control cancel, and housemech_control_cancel without a name
ControlCancel(name, canopen) ==
    LET g == housemech_control_cancel(Registry, name, canopen)
        tried == housemech_control_cancel(Registry, name, TRUE).sent # <<>>
    IN  /\ Stored(g, canopen, tried)
        /\ last' = [NoCall EXCEPT !.op = "cancel", !.name = name,
                       !.canopen = canopen]
        /\ UNCHANGED <<ruleVars, streamVars, Providers, latestdiscovery,
                       reported, namedBy, served, now>>

\* House::control state
ControlState(name) ==
    LET g == housemech_control_state(Registry, name)
    IN  /\ Stored(g, TRUE, FALSE)
        /\ last' = [NoCall EXCEPT !.op = "state", !.name = name, !.str = g.str]
        /\ UNCHANGED <<ruleVars, streamVars, Providers, latestdiscovery,
                       reported, namedBy, served, now>>

\* housemech_background calls housemech_control_background once per second,
\* with the time of the call: t is that time, changed what
\* housediscover_changed returns, dir what the directory lists for the
\* service "control" and cannotopen the providers for which echttp_client
\* fails.  changed = TRUE is tried only where it makes a pass, and a failure
\* of echttp_client only in a pass.
ControlBackground(t, changed, dir, cannotopen) ==
    LET g == housemech_control_background(Registry, t)
        before == [latestdiscovery |-> latestdiscovery, Providers |-> Providers,
                   sent |-> <<>>, pass |-> FALSE]
        d == housemech_control_discover(before, t, changed, dir, cannotopen)
        due == housemech_control_discover(before, t, FALSE, dir, cannotopen).pass
    IN  /\ t > now
        /\ now' = t
        /\ changed => ~due
        /\ d.pass \/ cannotopen = {}
        /\ Stored([g EXCEPT !.sent = d.sent], TRUE, FALSE)
        /\ Providers' = d.Providers
        /\ latestdiscovery' = d.latestdiscovery
        /\ last' = [NoCall EXCEPT !.op = "background",
                       !.ret = IF d.pass THEN 1 ELSE 0,
                       !.batch = IF d.pass THEN dir ELSE <<>>,
                       !.str = IF changed THEN "changed" ELSE "",
                       !.wasId = IF d.pass THEN latestdiscovery ELSE 0,
                       !.num = Cardinality({ i \in DOMAIN Controls :
                                               g.Controls[i] # Controls[i] })]
        /\ UNCHANGED <<ruleVars, streamVars, reported, namedBy, served>>

\* The completion of a discovery request (/status)
ControlDiscovered(provider, status, kind, entries, body, canopen) ==
    /\ ControlRequest("status", provider, "", "") \in pendingC
    /\ LET h == [Registry EXCEPT
                    !.answered = {ControlRequest("status", provider, "", "")}]
           g == housemech_control_discovered(h, provider, status, kind,
                    entries, procs, body, canopen, now)
           tried == housemech_control_discovered(h, provider, status, kind,
                        entries, procs, body, TRUE, now).sent # <<>>
           folded == status = 200 /\ kind = "ok"
       IN  /\ Stored(g, canopen, tried)
           /\ body = <<>> \/ g.invoked # <<>>
           /\ reported' = IF folded THEN Fold(reported, entries) ELSE reported
           /\ namedBy' = IF folded THEN NamedIn(namedBy, provider, entries)
                          ELSE namedBy
           /\ last' = [NoCall EXCEPT !.op = "discovered", !.provider = provider,
                          !.ret = status, !.text = kind,
                          !.num = Len(g.triggered)]
    /\ UNCHANGED <<ruleVars, streamVars, Providers, latestdiscovery, served, now>>

\* The completion of an actuation request (/set): req is the request, which
\* names the provider that answers and the control point that is the origin.
ControlResult(req, status, kind, entries, body, canopen) ==
    /\ req \in pendingC /\ req[1] = "set"
    /\ LET h == [Registry EXCEPT !.answered = {req}]
           g == housemech_control_result(h, req[3], status, kind,
                    entries, procs, body, canopen, now)
           tried == housemech_control_result(h, req[3], status, kind,
                        entries, procs, body, TRUE, now).sent # <<>>
           folded == status # 0 /\ kind = "ok"
       IN  /\ Stored(g, canopen, tried)
           /\ body = <<>> \/ g.invoked # <<>>
           /\ reported' = IF folded THEN Fold(reported, entries) ELSE reported
           /\ namedBy' = IF folded THEN NamedIn(namedBy, req[2], entries)
                          ELSE namedBy
           /\ last' = [NoCall EXCEPT !.op = "result", !.name = req[3],
                          !.provider = req[2],
                          !.ret = status, !.num = Len(g.triggered)]
    /\ UNCHANGED <<ruleVars, streamVars, Providers, latestdiscovery, served, now>>

----------------------------------------------------------------------------
InitIdle ==
    /\ module = "event"
    /\ HouseMechCurrentServer = NULL
    /\ HouseMechLatestId = 0
    /\ HouseMechLatestTime = 0
    /\ NextCycle = 0
    /\ pendingH = {}
    /\ lostLock = NULL
    /\ sessionMax = 0
    /\ Controls = <<>>
    /\ ControlsActive = 0
    /\ Providers = <<>>
    /\ latestdiscovery = 0
    /\ pendingC = {}
    /\ reported = << >>
    /\ namedBy = << >>
    /\ served = NULL
    /\ last = NoCall

InitRule ==
    /\ procs = << >>
    /\ HouseMechReady = FALSE
    /\ EventState = << >>
    /\ InitIdle
    /\ now = 1

NextRule ==
    \/ \E s \in Scripts : LoadScript(s)
    \/ \E c \in Categories, n \in EventNames, a \in EventActions :
          \E o \in Outcomes(procs, EventAttempts(c, n, IF a = NULL THEN "" ELSE a)) :
             TriggerEvent(c, n, a, o)
    \/ \E l \in Locations, n \in SensorNames, v \in SensorValues :
          \E o \in Outcomes(procs, SensorAttempts(l, n, v)) :
             TriggerSensor(l, n, v, o)
    \/ \E n \in {"p1", "p2"}, s \in {"on", "off"} :
          \E o \in Outcomes(procs, ControlAttempts(n, s)) :
             TriggerControl(n, s, o)

SpecRule == InitRule /\ [][NextRule]_vars

\* The pollers: the script was loaded before, and a rule asks for the state
\* of a control point while the poller runs.
StreamScript == [k \in {"EVENT.A", "SENSOR.L"} |-> 2]
InitStream ==
    /\ procs = StreamScript
    /\ HouseMechReady = TRUE
    /\ EventState = << >>
    /\ module \in {"event", "sensor"}
    /\ HouseMechCurrentServer = NULL
    /\ HouseMechLatestId = 0
    /\ now = 1
    /\ HouseMechLatestTime = now * InitialTimeScale
    /\ NextCycle = 0
    /\ pendingH = {}
    /\ lostLock = NULL
    /\ sessionMax = 0
    /\ Controls = <<>>
    /\ ControlsActive = 0
    /\ Providers = <<>>
    /\ latestdiscovery = 0
    /\ pendingC = {}
    /\ reported = << >>
    /\ namedBy = << >>
    /\ served = NULL
    /\ last = NoCall

NextStream ==
    \/ \E n \in Actuated : ControlState(n)
    \/ HistoryClockTick
    \/ \E dir \in Directories(HistoryProviders) : \E x \in SUBSET Range(dir) :
          HistoryBackground(dir, x)
    \/ \E p \in HistoryProviders, r \in SnapshotResponses :
          HistoryCheckResponse(p, r[1], r[2], r[3], r[4], r[5])
    \/ \E p \in HistoryProviders, r \in FetchResponses :
          HistoryResponse(p, r[1], r[2], r[3])

SpecStream == InitStream /\ [][NextStream]_vars

\* The registry: the script defines a rule for the point p1 and none for p2,
\* and the first tick comes at a time above the period of the discovery.
\* The directory lists one provider, whose reports list the point p1, with a
\* state or without; no provider reports p2.
PointDirectory == <<"http://c1">>
ControlDirectories == { <<"http://c1", "http://c2">>, <<"http://c2">> }
ControlScript == [k \in {"POINT.p1"} |-> 1]
InitControl ==
    /\ procs = ControlScript
    /\ HouseMechReady = TRUE
    /\ EventState = << >>
    /\ InitIdle
    /\ now = DiscoveryPeriod

NextControl ==
    \/ \E n \in Names, q \in Pulses, o \in BOOLEAN : ControlStart(n, q, o)
    \/ \E n \in Actuated \cup {NULL}, o \in BOOLEAN : ControlCancel(n, o)
    \/ \E n \in Actuated : ControlState(n)
    \/ \E x \in SUBSET Range(PointDirectory) :
          /\ now < MaxTime
          /\ ControlBackground(now + 1, FALSE, PointDirectory, x)
    \/ \E p \in Range(PointDirectory), r \in DiscoveredResponses(PointReports),
          b \in RuleBodies, o \in BOOLEAN :
             ControlDiscovered(p, r[1], r[2], r[3], b, o)
    \/ \E req \in pendingC, r \in ResultResponses(PointReports),
          b \in RuleBodies, o \in BOOLEAN :
             ControlResult(req, r[1], r[2], r[3], b, o)

SpecControl == InitControl /\ [][NextControl]_vars

\* The routing of two control points: the directory lists two providers and
\* then one of them, the reports carry no state, no rule is triggered and p1
\* is started without a pulse.
MaxRouteTime == 4
NextRouting ==
    \/ ControlStart("p1", 0, TRUE)
    \/ \E c \in BOOLEAN, dir \in ControlDirectories :
          /\ now < MaxRouteTime
          /\ ControlBackground(now + 1, c, dir, {})
    \/ \E p \in ControlProviders, r \in DiscoveredResponses(RoutingReports) :
          ControlDiscovered(p, r[1], r[2], r[3], <<>>, TRUE)
    \/ \E req \in pendingC, r \in ResultResponses(RoutingReports) :
          ControlResult(req, r[1], r[2], r[3], <<>>, TRUE)

SpecRouting == InitControl /\ [][NextRouting]_vars

\* The pulses of two control points: the one provider of the directory
\* reports p1 and p2, which the rules start, with a pulse or without, and
\* cancel, one at a time or all at once; the requests are answered.
PulseReports == { << <<"p1", NULL>>, <<"p2", NULL>> >> }
NextPulse ==
    \/ \E n \in Names, q \in Pulses, o \in BOOLEAN : ControlStart(n, q, o)
    \/ \E n \in Names \cup {NULL}, o \in BOOLEAN : ControlCancel(n, o)
    \/ /\ now < MaxTime
       /\ ControlBackground(now + 1, FALSE, PointDirectory, {})
    \/ \E p \in Range(PointDirectory), e \in PulseReports :
          ControlDiscovered(p, 200, "ok", e, <<>>, TRUE)
    \/ \E req \in pendingC : ControlResult(req, 200, "empty", <<>>, <<>>, TRUE)

SpecPulse == InitControl /\ [][NextPulse]_vars


\* The fetch response of C3: status 200, a complete document, the records
\* 9, 7, 5, 3 in that order, given while the cursor id was 4 and the stream
\* was locked on the provider that answers.
C3_Response(l) ==
    /\ l.op = "response" /\ l.num = 200 /\ l.text = "ok"
    /\ l.batch = <<Record(9), Record(7), Record(5), Record(3)>>
    /\ l.wasId = 4
C3_Case ==
    /\ C3_Response(last')
    /\ HouseMechLatestId = 4
    /\ HouseMechCurrentServer = last'.provider

\* C3 as stated: with a prior cursor id of 4 and a fetch response whose
\* records carry the ids 9, 7, 5, 3 in that order, exactly one record, id 9, is
\* handed to the dispatcher and the cursor id is left at 9.
C3_OnlyNewest ==
    [][ C3_Case => (last'.dispatched = <<9>> /\ HouseMechLatestId' = 9) ]_vars

\* C3 as amended: when the stream is locked on the provider that answers, the
\* batch is walked from its last record to its first, so that the records 5, 7
\* and 9 are handed to the dispatcher in that order (only 3 is rejected), and
\* the cursor id is left at 9.
C3_OldestFirst ==
    [][ C3_Case => (last'.dispatched = <<5, 7, 9>> /\ HouseMechLatestId' = 9) ]_vars

\* The state after that response: a stale response hands no record over and
\* a response given while unlocked hands over record 3 as well, so that the
\* stream was locked on the provider that answers.
C3_Witness ==
    /\ C3_Response(last)
    /\ HouseMechCurrentServer = last.provider
    /\ Len(last.dispatched) = 3

MaxIdOf(batch) ==
    IF batch = <<>> THEN 0
    ELSE CHOOSE m \in { batch[i][2] : i \in DOMAIN batch } :
            \A i \in DOMAIN batch : batch[i][2] <= m

\* A response with a status that is neither 200 nor a redirection, from the
\* provider the stream is locked on.
C4_FailedPoll ==
    /\ last'.op \in {"check_response", "response"}
    /\ HouseMechCurrentServer # NULL
    /\ last'.provider = HouseMechCurrentServer
    /\ last'.num = 500
\* A successful response of the given kind from a provider Q, while the
\* stream is unlocked because a response from another provider P has failed.
C4_After(op) ==
    /\ last'.op = op /\ last'.num = 200 /\ last'.text = "ok"
    /\ HouseMechCurrentServer = NULL
    /\ lostLock # NULL /\ last'.provider # lostLock

\* C4 as stated: a non-200 poll response from the provider P the stream is
\* locked on unlocks the stream, and the next successful probe (snapshot)
\* response from another provider Q locks the stream on Q, with the cursor id
\* reset to 0 and the watermark as it was.
C4_LockOnProbe ==
    [][ /\ C4_FailedPoll => HouseMechCurrentServer' = NULL
        /\ C4_After("check_response") =>
              /\ HouseMechCurrentServer' = last'.provider
              /\ HouseMechLatestId' = 0
              /\ HouseMechLatestTime' = HouseMechLatestTime ]_vars

\* C4 as amended: a non-200 poll response from the provider P the stream is
\* locked on unlocks the stream and leaves the cursor id and the watermark
\* as they were.  Afterwards a successful snapshot response from another
\* provider Q leaves the stream unlocked, and submits one fetch request to Q
\* or none; it is the successful fetch response from Q that locks the stream
\* on Q: the cursor id is reset to 0 before the batch is walked, so that it
\* ends at the largest id of the batch, and the watermark is not lower than
\* before.
C4_LockOnFetch ==
    [][ /\ C4_FailedPoll =>
              /\ HouseMechCurrentServer' = NULL
              /\ lostLock' = last'.provider
              /\ HouseMechLatestId' = HouseMechLatestId
              /\ HouseMechLatestTime' = HouseMechLatestTime
        /\ C4_After("check_response") =>
              /\ HouseMechCurrentServer' = NULL
              /\ HouseMechLatestId' = HouseMechLatestId
              /\ HouseMechLatestTime' = HouseMechLatestTime
              /\ last'.sent \in { <<>>, <<Request("fetch", last'.provider)>> }
        /\ C4_After("response") =>
              /\ HouseMechCurrentServer' = last'.provider
              /\ HouseMechLatestId' = MaxIdOf(last'.batch)
              /\ HouseMechLatestTime' >= HouseMechLatestTime ]_vars

\* The state after the fetch response that locks the stream on Q, P being
\* the provider whose failure dropped the lock: the stream was unlocked before
\* this response, or it would have been locked on Q already and the records
\* up to the old cursor would not have been handed over.
C4_Witness ==
    /\ last.op = "response" /\ last.num = 200 /\ last.text = "ok"
    /\ lostLock # NULL /\ lostLock # last.provider
    /\ HouseMechCurrentServer = last.provider
    /\ last.wasId = 9 /\ last.dispatched = <<3, 5, 7, 9>>

IsTrigger == last.op \in {"trigger_event", "trigger_sensor", "trigger_control"}

\* C1: a call of triggerEvent, triggerSensor or triggerControl runs the body
\* of at most one rule, whatever the rules defined and whatever the outcome
\* (success or error) of the rules it runs.
C1_AtMostOneRule == IsTrigger => Len(last.invoked) <= 1

\* The attempts of the last triggerEvent, and those among them that name a
\* defined rule (a proc of that name taking the arguments of that form).
LastEventAttempts ==
    EventAttempts(last.provider, last.name,
                  IF last.text = NULL THEN "" ELSE last.text)
LastEventDefined ==
    { i \in 1..3 : TclRuns(procs, LastEventAttempts[i][1], LastEventAttempts[i][2]) }
MostSpecific(S) == CHOOSE i \in S : \A j \in S : i <= j

\* C2: triggerEvent(category, name, action) invokes the most specific defined
\* rule among EVENT.category.name.action (no argument), EVENT.category.name
\* (action) and EVENT.category (name, action), and only that one.
C2_MostSpecificOnly ==
    last.op = "trigger_event" =>
        IF LastEventDefined = {} THEN last.invoked = <<>>
        ELSE last.invoked = <<LastEventAttempts[MostSpecific(LastEventDefined)]>>

\* What the code does instead: the rules are run from the most specific one
\* on, and the first body that succeeds ends the chain.
RuleChainHolds ==
    last.op = "trigger_event" =>
        /\ \A k \in 1..Len(last.invoked) : \E i \in LastEventDefined :
               /\ last.invoked[k] = LastEventAttempts[i]
               /\ Cardinality({ j \in LastEventDefined : j < i }) = k - 1
        /\ last.ret = 0 => Len(last.invoked) = Cardinality(LastEventDefined)

\* The entry of a control point in the registry, and the provider that owns
\* the point ("" when there is none, the point being unknown or its url being
\* empty), before and after a step.
Known(name) == \E i \in DOMAIN Controls : Controls[i].name = name
Point(name) == Controls[CHOOSE i \in DOMAIN Controls : Controls[i].name = name]
Owner(name) == IF Known(name) THEN Point(name).url ELSE ""
PointAfter(name) ==
    Controls'[CHOOSE i \in DOMAIN Controls' : Controls'[i].name = name]
OwnerAfter(name) ==
    IF \E i \in DOMAIN Controls' : Controls'[i].name = name
    THEN PointAfter(name).url ELSE ""
\* The requests that a step has put in flight
Submitted == pendingC' \ pendingC

\* C5, as the spec states it: after a start with a pulse the point is active
\* with the deadline now + pulse, and a background tick at any time
\* t >= deadline leaves the point inactive without deadline and submits no
\* HTTP request.
C5_ExpiresAtDeadline ==
    [][ /\ (last'.op = "start" /\ last'.ret = 1 /\ last'.num > 0) =>
              /\ PointAfter(last'.name).status = "a"
              /\ PointAfter(last'.name).deadline = now + last'.num
        /\ last'.op = "background" =>
              \A i \in DOMAIN Controls :
                 (Controls[i].status = "a" /\ Controls[i].deadline # 0
                    /\ now' >= Controls[i].deadline) =>
                       /\ Controls'[i].status = "i"
                       /\ Controls'[i].deadline = 0
                       /\ Submitted = {} ]_vars

\* C5, as the code has it: after a start with a pulse the point is active
\* with the deadline now + pulse; a background tick at a time t > deadline
\* leaves the point inactive without deadline, a tick at a time t <= deadline
\* leaves the point as it is, and the only requests that a tick submits are
\* the status requests of the discovery.
C5_ExpiresAfterDeadline ==
    [][ /\ (last'.op = "start" /\ last'.ret = 1 /\ last'.num > 0) =>
              /\ PointAfter(last'.name).status = "a"
              /\ PointAfter(last'.name).deadline = now + last'.num
        /\ last'.op = "background" =>
              /\ \A r \in Submitted : r[1] = "status"
              /\ \A i \in DOMAIN Controls :
                    (Controls[i].status = "a" /\ Controls[i].deadline # 0) =>
                        IF now' > Controls[i].deadline
                        THEN /\ Controls'[i].status = "i"
                             /\ Controls'[i].deadline = 0
                        ELSE Controls'[i] = Controls[i] ]_vars

\* The state after the tick that has ended the pulse of p1
C5_Witness ==
    /\ last.op = "background" /\ last.num = 1
    /\ Known("p1")
    /\ Point("p1").status = "i" /\ Point("p1").deadline = 0
    /\ Point("p1").url # ""

\* C6: the provider that owns a control point is the provider of the latest
\* parsed report that has named the point.
C6_LastWriteWins == \A n \in DOMAIN namedBy : Owner(n) = namedBy[n]

\* C7: a discovery pass replaces the cached list of providers by the list of
\* the directory and sends status requests to these providers only; a
\* control point owned by a provider that is no longer listed keeps its
\* provider until the report of another provider names the point.
C7_RebuildWithoutEviction ==
    [][ /\ (last'.op = "background" /\ last'.ret = 1) =>
              /\ Providers' = last'.batch
              /\ \A r \in Submitted :
                    r[1] = "status" /\ r[2] \in Range(last'.batch)
        /\ (last'.op = "background" /\ last'.ret = 0) =>
              /\ Providers' = Providers
              /\ Submitted = {}
        /\ \A n \in Names :
              (/\ Owner(n) # ""
               /\ Owner(n) \notin Range(Providers)
               /\ OwnerAfter(n) # Owner(n)) =>
                  /\ last'.op \in {"discovered", "result"}
                  /\ n \in DOMAIN namedBy'
                  /\ namedBy'[n] # Owner(n) ]_vars

\* The state that the latest report to carry one has carried for a point, as
\* the text that a state query is to return
Latest(name) == IF name \in DOMAIN reported THEN reported[name] ELSE ""

\* C8: state(name) returns "" for a control point for which no report has
\* carried a state (a name never seen included) and else the state that the
\* latest report to carry one has carried: in every state the query answers
\* so for every name, and the last query has answered so.
C8_StateOfLatestReport ==
    /\ \A n \in Names : housemech_control_state(Registry, n).str = Latest(n)
    /\ last.op = "state" => last.str = Latest(last.name)

\* The state after a query that has returned the state of the latest report,
\* the point being active (started, and the provider has said "off" since).
C8_Witness ==
    /\ last.op = "state" /\ last.name = "p1" /\ last.str = "off"
    /\ reported["p1"] = "off"
    /\ Point("p1").status = "a"

\* C9: a start of a control point without provider returns 0, submits no
\* request and leaves every entry of the registry and the flag
\* ControlsActive as they are; the entry that it may add for a new name is
\* unknown and has no deadline.
C9_StartWithoutOwner ==
    [][ (last'.op = "start" /\ Owner(last'.name) = "") =>
           /\ last'.ret = 0
           /\ housemech_control_start(Registry, last'.name, last'.num,
                                      last'.canopen, now).sent = <<>>
           /\ pendingC' = pendingC
           /\ ControlsActive' = ControlsActive
           /\ \A i \in DOMAIN Controls : Controls'[i] = Controls[i]
           /\ \A i \in DOMAIN Controls' \ DOMAIN Controls :
                 Controls'[i].status = "u" /\ Controls'[i].deadline = 0 ]_vars

\* The state after a failed start of p2, which no provider has reported,
\* while p1 is active with a deadline and a request for p1 is in flight.
C9_Witness ==
    /\ last.op = "start" /\ last.name = "p2" /\ last.ret = 0
    /\ Owner("p2") = ""
    /\ Known("p1") /\ Point("p1").status = "a" /\ Point("p1").deadline # 0
    /\ ControlRequest("set", Owner("p1"), "p1", "on") \in pendingC
    /\ ControlsActive = 1

\* C10: a start of a control point that has a provider, when the request can
\* be opened, submits one request state=on to this provider and no other,
\* returns 1, leaves the point active, with the deadline now + pulse when
\* pulse > 0 and with the deadline it had when pulse = 0.
C10_StartWithOwner ==
    [][ (last'.op = "start" /\ Owner(last'.name) # "" /\ last'.canopen) =>
           LET name == last'.name
               request == ControlRequest("set", Owner(name), name, "on")
           IN  /\ last'.ret = 1
               /\ housemech_control_start(Registry, name, last'.num, TRUE,
                                          now).sent = <<request>>
               /\ pendingC' = pendingC \cup {request}
               /\ PointAfter(name).status = "a"
               /\ PointAfter(name).url = Owner(name)
               /\ PointAfter(name).deadline =
                     IF last'.num > 0 THEN now + last'.num
                     ELSE Point(name).deadline ]_vars

\* The state after a start of p1 with a pulse
C10_Witness ==
    /\ last.op = "start" /\ last.name = "p1" /\ last.ret = 1
    /\ last.num = MaxPulse
    /\ Point("p1").status = "a" /\ Point("p1").deadline = now + MaxPulse
    /\ ControlRequest("set", Owner("p1"), "p1", "on") \in pendingC

\* C11: after a successful start without pulse the point has no deadline,
\* whatever the deadline it had before.
C11_StartWithoutPulseHasNoDeadline ==
    [][ (last'.op = "start" /\ last'.ret = 1 /\ last'.num = 0) =>
           /\ PointAfter(last'.name).status = "a"
           /\ PointAfter(last'.name).deadline = 0 ]_vars

\* The requests state=off for the points of these indexes, in order
RECURSIVE StopRequests(_, _)
StopRequests(i, pulsed) ==
    IF i > Len(Controls) THEN <<>>
    ELSE IF i \in pulsed
    THEN <<ControlRequest("set", Controls[i].url, Controls[i].name, "off")>>
         \o StopRequests(i + 1, pulsed)
    ELSE StopRequests(i + 1, pulsed)

C13_CancelNamed ==
    [][ (last'.op = "cancel" /\ last'.name # NULL) =>
           LET name == last'.name
               sent == housemech_control_cancel(Registry, name,
                                                last'.canopen).sent
           IN  /\ \A i \in DOMAIN Controls :
                     Controls[i].name # name => Controls'[i] = Controls[i]
               /\ \A i \in DOMAIN Controls' \ DOMAIN Controls :
                     Controls'[i] = NewControl(name)
               /\ ControlsActive' = ControlsActive
               /\ pendingC' = pendingC \cup Range(sent)
               /\ IF Owner(name) # ""
                  THEN /\ sent = IF last'.canopen
                                 THEN <<ControlRequest("set", Owner(name),
                                                       name, "off")>>
                                 ELSE <<>>
                       /\ PointAfter(name) =
                             [Point(name) EXCEPT
                                 !.deadline = 0,
                                 !.status = IF last'.canopen THEN "i" ELSE @]
                  ELSE /\ sent = <<>>
                       /\ Known(name) => PointAfter(name) = Point(name) ]_vars

\* The state after the cancel of p1, which had a deadline, while p2 has one
\* too: p1 is inactive without deadline, p2 is as it was.
C13_Witness ==
    /\ last.op = "cancel" /\ last.name = "p1" /\ last.canopen
    /\ Known("p1") /\ Known("p2")
    /\ Point("p1").status = "i" /\ Point("p1").deadline = 0
    /\ Point("p2").status = "a" /\ Point("p2").deadline # 0
    /\ ControlRequest("set", Owner("p1"), "p1", "off") \in pendingC

\* The state that the registry holds for a point, NULL when it holds none
StoredState(cs, name) ==
    IF \E i \in DOMAIN cs : cs[i].name = name
    THEN cs[CHOOSE i \in DOMAIN cs : cs[i].name = name].state
    ELSE NULL

\* C14: when a report carries a state for a control point, in whatever state
\* of the registry and whatever the provider and the body of the rule: if the
\* point has a stored state and the reported one differs,
\* housemech_rule_trigger_control(name, new state) is called once, while the
\* old state is still the stored one (this is what a state query of the rule
\* returns), and the new state is stored; if the states are equal nothing is
\* triggered and the state stays; if the point has no stored state, the
\* state is stored and nothing is triggered.  A report without state for the
\* point triggers nothing and leaves the stored state.
C14_TriggerOnChange ==
    \A p \in ControlProviders, e \in PointReports, b \in RuleBodies :
        LET name == e[1][1]
            state == e[1][2]
            old == StoredState(Controls, name)
            g == housemech_control_update(Registry, p, "ok", e, procs, b,
                                          TRUE, now)
        IN  IF state # NULL /\ old # NULL /\ state # old
            THEN /\ g.triggered = << <<name, state>> >>
                 /\ g.invoked = << <<"POINT." \o name, <<state>> >> >>
                 /\ StoredState(g.Controls, name) = state
                 /\ \A k \in DOMAIN g.answers :
                       g.answers[k][1] = "state" /\ g.answers[k][2] = name
                          => g.answers[k][3] = old
            ELSE /\ g.triggered = <<>>
                 /\ g.invoked = <<>>
                 /\ StoredState(g.Controls, name) =
                       IF state = NULL THEN old ELSE state

\* The state after a report that says "on" for p1, whose stored state was
\* another one: the rule was triggered once.
C14_Witness ==
    /\ last.op \in {"discovered", "result"} /\ last.num = 1
    /\ Known("p1") /\ Point("p1").state = "on"
    /\ reported["p1"] = "on"

\* The feedback loop of the test script (POINT.feed2, POINT.feed1): one
\* provider serves the point p1 and answers every status request and every
\* actuation request with the state that it holds for p1 at that moment.
\* That state changes at any time: after a start, after a cancel, or when the
\* provider ends a pulse.  The rule POINT.p1 does nothing, or calls
\* House::control once.  The main loop calls housemech_control_background
\* every second and echttp delivers every response: hence the fairness.
MaxLoopTime == 7
ServedReport == << <<"p1", served>> >>
InitLoop ==
    /\ procs = ControlScript
    /\ HouseMechReady = TRUE
    /\ EventState = << >>
    /\ module = "event"
    /\ HouseMechCurrentServer = NULL
    /\ HouseMechLatestId = 0
    /\ HouseMechLatestTime = 0
    /\ NextCycle = 0
    /\ pendingH = {}
    /\ lostLock = NULL
    /\ sessionMax = 0
    /\ Controls = <<>>
    /\ ControlsActive = 0
    /\ Providers = <<>>
    /\ latestdiscovery = 0
    /\ pendingC = {}
    /\ reported = << >>
    /\ namedBy = << >>
    /\ served = "off"
    /\ last = NoCall
    /\ now = DiscoveryPeriod

ProviderTurns(state) ==
    /\ state # served
    /\ served' = state
    /\ last' = NoCall
    /\ UNCHANGED <<ruleVars, streamVars, Controls, ControlsActive, Providers,
                   latestdiscovery, pendingC, reported, namedBy, now>>

LoopTick ==
    /\ now < MaxLoopTime
    /\ ControlBackground(now + 1, FALSE, PointDirectory, {})

LoopDiscovered ==
    \E p \in Range(PointDirectory), b \in RuleBodies :
       ControlDiscovered(p, 200, "ok", ServedReport, b, TRUE)

LoopResult ==
    \E req \in pendingC, b \in RuleBodies :
       ControlResult(req, 200, "ok", ServedReport, b, TRUE)

NextLoop ==
    \/ \E s \in PointStates : ProviderTurns(s)
    \/ \E q \in Pulses : ControlStart("p1", q, TRUE)
    \/ ControlCancel("p1", TRUE)
    \/ LoopTick
    \/ LoopDiscovered
    \/ LoopResult

SpecLoop ==
    /\ InitLoop
    /\ [][NextLoop]_vars
    /\ WF_vars(LoopTick)
    /\ WF_vars(LoopDiscovered)
    /\ WF_vars(LoopResult)

\* The provider holds the state s for p1 while the registry has stored
\* another one, and the clock leaves the time for one more discovery pass.
ChangePending(s) ==
    /\ served = s
    /\ Known("p1")
    /\ Point("p1").state \notin {NULL, s}
    /\ latestdiscovery + DiscoveryPeriod < MaxLoopTime

\* A response has just invoked POINT.p1 once, with the state s.
ChangeTriggered(s) ==
    /\ last.op \in {"discovered", "result"}
    /\ last.num = 1
    /\ Point("p1").state = s

\* C15: once the registry has stored a state for p1, whenever the provider
\* holds another state s for p1, either the provider leaves s again or a
\* response invokes POINT.p1 with s; and a response that carries the state
\* that the provider holds invokes POINT.p1 once when that state differs from
\* the one stored, and not at all when it does not.
C15_ChangeReachesRule ==
    /\ \A s \in PointStates :
          ChangePending(s) ~> (ChangeTriggered(s) \/ served # s)
    /\ [][ last'.op \in {"discovered", "result"} =>
              last'.num = IF Known("p1") /\ Point("p1").state \notin {NULL, served}
                          THEN 1 ELSE 0 ]_vars

\* C15 witness: the provider went from off to on under a registry that had
\* stored off, and the response of a later discovery pass has invoked the rule
C15_Witness ==
    /\ ChangeTriggered("on")
    /\ served = "on"
    /\ last.op = "discovered"
    /\ now > DiscoveryPeriod + 1

\* C16: after triggerEvent(category, name, action) with an action, the last
\* action of (category, name) is that action, for the rules that the call
\* runs and for a query made after the call, whatever the rules defined.
C16_LastActionRecorded ==
    (last.op = "trigger_event" /\ last.text # NULL) =>
        /\ last.str = last.text
        /\ HouseEventQuery(EventState, last.provider, last.name) = last.text

\* The attempts of the last triggerSensor, and those among them that name a
\* defined rule.
LastSensorAttempts == SensorAttempts(last.provider, last.name, last.text)
LastSensorDefined ==
    { i \in 1..2 : TclRuns(procs, LastSensorAttempts[i][1], LastSensorAttempts[i][2]) }

\* C17: triggerSensor(location, name, value) invokes the first defined rule
\* among SENSOR.location.name (value) and SENSOR.location (name, value), only
\* that one, and returns 1; it invokes nothing and returns 0 when neither is
\* defined.
C17_FirstDefinedSensorRule ==
    last.op = "trigger_sensor" =>
        IF LastSensorDefined = {}
        THEN last.invoked = <<>> /\ last.ret = 0
        ELSE /\ last.invoked = <<LastSensorAttempts[MostSpecific(LastSensorDefined)]>>
             /\ last.ret = 1

\* C18: triggerControl(name, state) evaluates POINT.name with the state as
\* its argument and nothing else: the rules it runs are that one when it is
\* defined and none when it is not, whatever other rules are defined, and it
\* returns 0 when POINT.name is not defined.
C18_PointRuleOnly ==
    last.op = "trigger_control" =>
        IF TclRuns(procs, "POINT." \o last.name, <<last.text>>)
        THEN last.invoked = << <<"POINT." \o last.name, <<last.text>> >> >>
        ELSE last.invoked = <<>> /\ last.ret = 0

\* C18 witness: triggerControl for p2, which has no rule, while the script
\* defines a rule for p1 and a rule that takes two arguments
C18_Witness ==
    /\ last.op = "trigger_control" /\ last.name = "p2" /\ last.ret = 0
    /\ last.invoked = <<>>
    /\ {"POINT.p1", "EVENT.A"} \subseteq DOMAIN procs

\* The last snapshot response was a complete one (status 200, a document
\* with .host and .saga.latest), and what the readiness was when it came.
SnapshotArrived(l) == l.op = "check_response" /\ l.num = 200 /\ l.text = "ok"
BothReady(l) == l.ready /\ housemech_control_ready
NoFetch(l) == l.sent = <<>> /\ pendingH' \subseteq pendingH

\* C19 as stated: a snapshot response submits a fetch only when the rules
\* and the controls are both ready; when one is not, a complete snapshot
\* response submits no fetch, dispatches nothing and leaves the lock, the
\* cursor, the since parameter and the time of the next poll as they were.
C19_NotReadyKeepsCursor ==
    [][ last'.op = "check_response" =>
           /\ last'.sent # <<>> => BothReady(last')
           /\ (SnapshotArrived(last') /\ ~BothReady(last')) =>
                 /\ NoFetch(last')
                 /\ UNCHANGED <<HouseMechCurrentServer, HouseMechLatestId,
                                HouseMechLatestTime, NextCycle, EventState>> ]_vars

\* C19 amended: the same, except for the cursor of the sensor stream, which
\* a snapshot of the locked provider that reports a latest id below the
\* cursor has reset to 0 before the readiness is looked at.
C19_NotReadyKeepsLock ==
    [][ last'.op = "check_response" =>
           /\ last'.sent # <<>> => BothReady(last')
           /\ (SnapshotArrived(last') /\ ~BothReady(last')) =>
                 /\ NoFetch(last')
                 /\ UNCHANGED <<HouseMechCurrentServer, HouseMechLatestTime,
                                NextCycle, EventState>>
                 /\ HouseMechLatestId' =
                       IF /\ module = "sensor"
                          /\ HouseMechCurrentServer = last'.provider
                          /\ HouseMechLatestId > last'.ret
                       THEN 0 ELSE HouseMechLatestId ]_vars

\* C19 witness: locked and with records accepted, the stream is given a
\* snapshot with another latest id while the almanac is not ready: no fetch
\* leaves and the lock stays
C19_Witness ==
    /\ SnapshotArrived(last) /\ ~last.ready /\ last.canopen
    /\ HouseMechCurrentServer = last.provider
    /\ last.wasId > 0 /\ last.ret # last.wasId
    /\ last.sent = <<>>
    /\ Request("fetch", last.provider) \notin pendingH

\* The stream is locked and the step leaves it locked on the same provider.
StaysLocked ==
    HouseMechCurrentServer # NULL /\ HouseMechCurrentServer' = HouseMechCurrentServer

\* C20 as stated: while the stream stays locked on the same provider, no
\* step lowers the id of the last record accepted.
C20_CursorNeverDecreases ==
    [][ StaysLocked => HouseMechLatestId' >= HouseMechLatestId ]_vars

\* C20 amended: while the stream stays locked on the same provider, the only
\* step that lowers the id of the last record accepted is, in the sensor
\* stream, a complete snapshot response of that provider that reports a
\* latest id below it, and that step sets it to 0.
C20_CursorDecreasesOnRestartOnly ==
    [][ StaysLocked =>
           \/ HouseMechLatestId' >= HouseMechLatestId
           \/ /\ module = "sensor"
              /\ SnapshotArrived(last')
              /\ last'.provider = HouseMechCurrentServer
              /\ last'.ret < HouseMechLatestId
              /\ HouseMechLatestId' = 0 ]_vars

\* C20 witness: locked with the cursor at 4, the stream is given the records
\* 9, 7, 5, 3 and moves the cursor to 9, leaving the record 3 aside
C20_Witness ==
    /\ last.op = "response" /\ last.wasId = 4
    /\ last.batch = <<Record(9), Record(7), Record(5), Record(3)>>
    /\ last.dispatched = <<5, 7, 9>>
    /\ HouseMechLatestId = 9
    /\ HouseMechCurrentServer = last.provider
    /\ module = "sensor"

\* The largest timestamp of a set of timestamps, 0 for none: the initial
\* value of latesttime in the fetch handlers.
LatestOf(S) == IF S = {} THEN 0 ELSE CHOOSE t \in S : \A u \in S : u <= t
LaterOf(a, b) == IF a > b THEN a ELSE b

\* The last fetch response was a complete one with at least one record, given
\* to a stream that was unlocked or locked on the provider that answers.
BatchHandled(l) ==
    /\ l.op = "response" /\ l.num = 200 /\ l.text = "ok"
    /\ l.batch # <<>>
    /\ HouseMechCurrentServer \in {NULL, l.provider}

\* C21 as stated: the since parameter never decreases, and after a batch with
\* records it is the larger of its value before and the latest timestamp of
\* the records of the batch minus 5.
C21_SinceFollowsBatch ==
    [][ /\ HouseMechLatestTime' >= HouseMechLatestTime
        /\ BatchHandled(last') =>
              HouseMechLatestTime' =
                 LaterOf(HouseMechLatestTime,
                         LatestOf({ r[1] : r \in Range(last'.batch) })
                            - SinceLeniency) ]_vars

\* C21 amended: the since parameter never decreases, and after a batch with
\* records it is the larger of its value before and the latest timestamp of
\* the records accepted from the batch minus 5; it stays when none is
\* accepted.
C21_SinceFollowsAccepted ==
    [][ /\ HouseMechLatestTime' >= HouseMechLatestTime
        /\ BatchHandled(last') =>
              HouseMechLatestTime' =
                 LaterOf(HouseMechLatestTime,
                         LatestOf({ TimeOf(id) : id \in Range(last'.dispatched) })
                            - SinceLeniency) ]_vars

\* C21 witness: a batch whose accepted records are older than a record that
\* it lists and rejects has moved the since parameter
C21_Witness ==
    /\ last.op = "response" /\ last.num = 200 /\ last.text = "ok"
    /\ HouseMechCurrentServer = last.provider
    /\ last.dispatched = <<9>>
    /\ Record(7) \in Range(last.batch)
    /\ HouseMechLatestTime = TimeOf(9) - SinceLeniency

\* The names of the entries of the registry
ControlNames(cs) == { cs[i].name : i \in DOMAIN cs }

\* C22: after every step the names of the entries are all different, every
\* entry is still there at its place with its name, and no name is lost.
C22_NamesUniqueAndKept ==
    [][ /\ \A i, j \in DOMAIN Controls' :
              Controls'[i].name = Controls'[j].name => i = j
        /\ Len(Controls') >= Len(Controls)
        /\ \A i \in DOMAIN Controls : Controls'[i].name = Controls[i].name
        /\ ControlNames(Controls) \subseteq ControlNames(Controls') ]_vars

\* C22 witness: p1 was added first and p2 after it, and p1 is started again
\* while the registry holds both
C22_Witness ==
    /\ last.op = "start" /\ last.name = "p1"
    /\ Len(Controls) = 2
    /\ Controls[1].name = "p1" /\ Controls[2].name = "p2"

\* C23: a response to an actuation request with a status other than 200
\* leaves the control point of the request with the status error and no
\* deadline, changes nothing else in the registry and triggers no rule: the
\* body is not read as a report.
C23_ErrorBodyNotFolded ==
    [][ (last'.op = "result" /\ last'.ret \notin {0, 200}) =>
           /\ PointAfter(last'.name).status = "e"
           /\ PointAfter(last'.name).deadline = 0
           /\ Len(Controls') = Len(Controls)
           /\ \A i \in DOMAIN Controls :
                 /\ Controls'[i].state = Controls[i].state
                 /\ Controls'[i].url = Controls[i].url
                 /\ Controls[i].name # last'.name =>
                       Controls'[i] = Controls[i]
           /\ last'.num = 0 ]_vars

\* snprintf (buffer+cursor, size-cursor, text), with size-cursor > 0: the
\* text is cut to what fits with the zero that ends it, and the value
\* returned is the length of the whole text.
Snprintf(buffer, cursor, size, text) ==
    LET room == size - cursor - 1
        kept == IF Len(text) <= room THEN text ELSE SubSeq(text, 1, room)
    IN  [buffer |-> buffer \o kept, cursor |-> cursor + Len(text)]

\* The text of each snprintf call of housemech_control_status, in order, at
\* the time t that time(0) returns.
RECURSIVE ServerTexts(_, _)
ServerTexts(providers, prefix) ==
    IF providers = <<>> THEN <<>>
    ELSE <<prefix \o "\"" \o Head(providers) \o "\"">>
         \o ServerTexts(Tail(providers), ",")
ControlRemaining(control, t) ==
    IF control.status = "a" THEN control.deadline - t ELSE 0
RECURSIVE ControlTexts(_, _, _)
ControlTexts(cs, prefix, t) ==
    IF cs = <<>> THEN <<>>
    ELSE <<prefix \o "[\"" \o Head(cs).name \o "\",\"" \o Head(cs).status
           \o "\",\"" \o Head(cs).url \o "\","
           \o ToString(ControlRemaining(Head(cs), t)) \o "]">>
         \o ControlTexts(Tail(cs), ",", t)
StatusTexts(providers, cs, t) ==
    <<"\"servers\":[">> \o ServerTexts(providers, "")
    \o <<"]", ",\"controls\":[">> \o ControlTexts(cs, "", t) \o <<"]">>

\* A status that returns what was written when the text does not fit
StatusTruncated(w) == [ret |-> Len(w.buffer), buffer |-> w.buffer]

\* The label overflow of housemech_control_status
StatusOverflow(w) == [ret |-> 0, buffer |-> ""]

\* The calls of snprintf one after the other, each followed by the test
\* if (cursor >= size) goto overflow
RECURSIVE StatusWrite(_, _, _)
StatusWrite(texts, w, size) ==
    IF texts = <<>> THEN [ret |-> w.cursor, buffer |-> w.buffer]
    ELSE LET v == Snprintf(w.buffer, w.cursor, size, Head(texts))
         IN  IF v.cursor >= size THEN StatusOverflow(v)
             ELSE StatusWrite(Tail(texts), v, size)

\* housemech_control_status, for a buffer of size bytes, size > 0
housemech_control_status(providers, cs, size, t) ==
    StatusWrite(StatusTexts(providers, cs, t), [buffer |-> "", cursor |-> 0], size)

\* The status request: the web server calls housemech_control_status with a
\* buffer of size bytes, at the time t.
ControlStatus(size, t) ==
    LET r == housemech_control_status(Providers, Controls, size, t)
    IN  /\ last' = [NoCall EXCEPT !.op = "status", !.num = size,
                       !.ret = r.ret, !.str = r.buffer]
        /\ UNCHANGED <<ruleVars, streamVars, controlVars, now>>

\* The status of a registry of two control points that one provider reports
\* and that the rules start, for every size of the buffer from 1 to one where
\* the whole text fits.
MaxStatusSize == 90
MaxStatusTime == 4
NextStatus ==
    \/ \E n \in Names : ControlStart(n, MaxPulse, TRUE)
    \/ /\ now < MaxStatusTime
       /\ ControlBackground(now + 1, FALSE, PointDirectory, {})
    \/ \E p \in Range(PointDirectory), e \in PulseReports :
          ControlDiscovered(p, 200, "ok", e, <<>>, TRUE)
    \/ \E req \in pendingC : ControlResult(req, 200, "empty", <<>>, <<>>, TRUE)
    \/ \E size \in 1..MaxStatusSize : ControlStatus(size, now)

SpecStatus == InitControl /\ [][NextStatus]_vars

\* The whole text that housemech_control_status has to write
RECURSIVE Joined(_)
Joined(texts) == IF texts = <<>> THEN "" ELSE Head(texts) \o Joined(Tail(texts))
StatusDocument == Joined(StatusTexts(Providers, Controls, now))

\* C24: housemech_control_status either returns the length of the whole text,
\* below the size of the buffer, with the whole text in the buffer, or
\* returns 0 with the empty string in the buffer, and this only when the
\* text with the zero that ends it does not fit.
C24_StatusWholeOrEmpty ==
    last.op = "status" =>
        IF Len(StatusDocument) < last.num
        THEN last.ret = Len(StatusDocument) /\ last.str = StatusDocument
        ELSE last.ret = 0 /\ last.str = ""

\* C24 witness: with two control points in the registry, the buffer has room
\* for the first one and not for the second
C24_Witness ==
    /\ last.op = "status" /\ last.ret = 0 /\ last.str = ""
    /\ Len(Controls) = 2
    /\ last.num > Len(Joined(StatusTexts(Providers, SubSeq(Controls, 1, 1), now)))
    /\ last.num <= Len(StatusDocument)

\* The last fetch response was a complete one.
FetchArrived(l) == l.op = "response" /\ l.num = 200 /\ l.text = "ok"

\* C25 as stated: a complete snapshot response given to an unlocked stream
\* locks the stream on the provider that answers and sets the cursor to 0.
C25_LockOnSnapshot ==
    [][ (HouseMechCurrentServer = NULL /\ SnapshotArrived(last')) =>
           /\ HouseMechCurrentServer' = last'.provider
           /\ HouseMechLatestId' = 0 ]_vars

\* C25 amended: a complete snapshot response given to an unlocked stream
\* leaves it unlocked with its cursor, and submits the fetch when the rules
\* and the controls are ready and the request can be opened; the complete
\* fetch response given to an unlocked stream locks it on the provider that
\* answers and walks the batch from the cursor 0, which leaves the cursor at
\* the largest id of the batch.
C25_LockOnFetchResponse ==
    [][ /\ (HouseMechCurrentServer = NULL /\ SnapshotArrived(last')) =>
              /\ HouseMechCurrentServer' = NULL
              /\ HouseMechLatestId' = HouseMechLatestId
              /\ last'.sent = IF BothReady(last') /\ last'.canopen
                              THEN <<Request("fetch", last'.provider)>>
                              ELSE <<>>
        /\ (HouseMechCurrentServer = NULL /\ FetchArrived(last')) =>
              /\ HouseMechCurrentServer' = last'.provider
              /\ HouseMechLatestId' = MaxIdOf(last'.batch) ]_vars

\* C25 witness: the stream had lost its lock with the cursor at 9; the fetch
\* response that locks it again hands over the records 3 and 4 and leaves the
\* cursor at 4
C25_Witness ==
    /\ FetchArrived(last)
    /\ last.wasId = 9 /\ last.dispatched = <<3, 4>>
    /\ HouseMechLatestId = 4
    /\ HouseMechCurrentServer = last.provider

\* The providers of the list dir that are not in the set S, in the order of
\* the list, and the list from the provider after P on.
RECURSIVE Without(_, _)
Without(dir, S) ==
    IF dir = <<>> THEN <<>>
    ELSE IF Head(dir) \in S THEN Without(Tail(dir), S)
    ELSE <<Head(dir)>> \o Without(Tail(dir), S)
RECURSIVE After(_, _)
After(dir, P) ==
    IF dir = <<>> THEN <<>>
    ELSE IF Head(dir) = P THEN Tail(dir) ELSE After(Tail(dir), P)
CheckRequests(providers) ==
    [i \in DOMAIN providers |-> Request("check", providers[i])]

\* C26: the lock is NULL or one provider.  A poll tick of a stream locked on
\* P sends one snapshot request, to P, when the directory lists P, and none
\* when it does not; a poll tick of an unlocked stream sends one to every
\* provider listed.  This for the requests that can be opened: a provider
\* whose request cannot be opened is sent none, and when it is P the lock is
\* dropped at once and the providers listed after P are sent one as for an
\* unlocked stream.
C26_LockedAsksOne ==
    [][ /\ HouseMechCurrentServer' \in HistoryProviders \cup {NULL}
        /\ (last'.op = "history_background" /\ last'.ret = 1) =>
              last'.sent = CheckRequests(
                 IF HouseMechCurrentServer = NULL
                 THEN Without(last'.batch, last'.failed)
                 ELSE IF HouseMechCurrentServer \notin Range(last'.batch)
                 THEN <<>>
                 ELSE IF HouseMechCurrentServer \notin last'.failed
                 THEN <<HouseMechCurrentServer>>
                 ELSE Without(After(last'.batch, HouseMechCurrentServer),
                              last'.failed)) ]_vars

\* C26 witness: the directory lists two providers, the other one first, and
\* the stream stays locked on the provider it has asked alone
C26_Witness ==
    /\ last.op = "history_background" /\ last.ret = 1
    /\ Len(last.batch) = 2 /\ last.failed = {}
    /\ HouseMechCurrentServer = last.batch[2]
    /\ HouseMechLatestId > 0
    /\ last.sent = <<Request("check", HouseMechCurrentServer)>>

\* C27: a complete snapshot response of the provider the stream is locked
\* on, which reports the id of the cursor as the latest, submits no fetch and
\* leaves the lock, the cursor and the since parameter as they were.
C27_SameIdNoFetch ==
    [][ ( /\ HouseMechCurrentServer # NULL
          /\ SnapshotArrived(last')
          /\ last'.provider = HouseMechCurrentServer
          /\ last'.ret = HouseMechLatestId ) =>
           /\ NoFetch(last')
           /\ UNCHANGED <<HouseMechCurrentServer, HouseMechLatestId,
                          HouseMechLatestTime>> ]_vars

\* C27 witness: locked with the cursor at 9, the stream is given a snapshot
\* that reports 9, while everything is ready for a fetch
C27_Witness ==
    /\ SnapshotArrived(last) /\ last.ret = 9 /\ last.wasId = 9
    /\ HouseMechCurrentServer = last.provider
    /\ HouseMechLatestId = 9
    /\ BothReady(last) /\ last.canopen
    /\ last.sent = <<>>

\* A complete snapshot response of the provider the stream is locked on,
\* which reports a latest id below the cursor.
ProviderRestarted ==
    /\ HouseMechCurrentServer # NULL
    /\ SnapshotArrived(last')
    /\ last'.provider = HouseMechCurrentServer
    /\ last'.ret < HouseMechLatestId

\* C28: in the event stream and in the sensor stream alike, a snapshot of
\* the locked provider that reports a latest id below the cursor sets the
\* cursor to 0 and keeps the lock.
C28_RestartResetsCursor ==
    [][ ProviderRestarted =>
           /\ HouseMechLatestId' = 0
           /\ HouseMechCurrentServer' = HouseMechCurrentServer ]_vars

\* A response of the provider the stream is locked on that has failed: a
\* status that is neither 200 nor a redirection, or a body that does not
\* parse, holds no data, or lacks .host or .saga.latest.
FailedFromLocked ==
    /\ HouseMechCurrentServer # NULL
    /\ last'.op \in {"check_response", "response"}
    /\ last'.provider = HouseMechCurrentServer
    /\ \/ last'.num \notin {0, 200}
       \/ last'.num = 200 /\ last'.text \in Bodies \ {"ok"}

\* C29: every failed response of the provider the stream is locked on, to a
\* snapshot request or to a fetch request, leaves the stream unlocked.
C29_FailureDropsLock ==
    [][ FailedFromLocked => HouseMechCurrentServer' = NULL ]_vars

\* C30: a response to a snapshot or to a fetch request that comes from
\* another provider than the one the stream is locked on changes neither the
\* lock, the cursor, the since parameter nor the last actions, hands no
\* record to the rules and submits no request, whatever its status and its
\* body.
C30_StaleResponseDiscarded ==
    [][ ( /\ HouseMechCurrentServer # NULL
          /\ last'.op \in {"check_response", "response"}
          /\ last'.provider # HouseMechCurrentServer ) =>
           /\ UNCHANGED <<HouseMechCurrentServer, HouseMechLatestId,
                          HouseMechLatestTime, EventState>>
           /\ last'.dispatched = <<>>
           /\ NoFetch(last') ]_vars

\* C30 witness: a complete fetch response with records above the cursor has
\* come from another provider than the one of the lock, and none was taken
C30_Witness ==
    /\ FetchArrived(last)
    /\ HouseMechCurrentServer \notin {NULL, last.provider}
    /\ last.batch # <<>> /\ MaxIdOf(last.batch) > HouseMechLatestId
    /\ last.dispatched = <<>>

\* C31: a poll tick that submits no snapshot request at all (the directory
\* lists no provider, lists only providers other than the locked one, or
\* the request cannot be opened) while a lock is held leaves the stream
\* unlocked.
C31_IdleTickUnlocks ==
    [][(last'.op = "history_background" /\ last'.ret = 1
        /\ last'.sent = <<>> /\ HouseMechCurrentServer # NULL)
       => HouseMechCurrentServer' = NULL]_vars

\* The stream was locked on a provider that the directory did not list at a
\* poll tick that could open every request: nothing was asked, and the
\* stream is unlocked.
C31_Witness ==
    /\ last.op = "history_background" /\ last.ret = 1
    /\ last.provider \in HistoryProviders
    /\ last.batch # <<>> /\ last.provider \notin Range(last.batch)
    /\ last.sent = <<>> /\ last.failed = {}
    /\ HouseMechCurrentServer = NULL

\* The period of the discovery: the directory lists two providers or one of
\* them and says at any tick that its members have changed or not, the
\* reports carry no state, and the clock runs long enough for two passes
\* that no change has asked for.
MaxDiscoveryTime == 7
NextDiscovery ==
    \/ \E c \in BOOLEAN, dir \in ControlDirectories :
          /\ now < MaxDiscoveryTime
          /\ ControlBackground(now + 1, c, dir, {})
    \/ \E p \in ControlProviders, r \in DiscoveredResponses(RoutingReports) :
          ControlDiscovered(p, r[1], r[2], r[3], <<>>, TRUE)

SpecDiscovery == InitControl /\ [][NextDiscovery]_vars

\* C32: a discovery pass made by a tick at which the directory reports no
\* change comes at least DiscoveryPeriod after the pass before it, and a
\* tick at which the directory reports a change since the last pass makes
\* a pass whatever the time elapsed.
C32_DiscoveryPeriod ==
    [][last'.op = "background" =>
          /\ (last'.ret = 1 /\ last'.str # "changed" /\ latestdiscovery > 0)
                => now' >= latestdiscovery + DiscoveryPeriod
          /\ (last'.str = "changed" /\ latestdiscovery > 0)
                => (last'.ret = 1 /\ latestdiscovery' = now')]_vars

\* A pass that a change of the directory has forced one second after the
\* pass before it.
C32_Witness ==
    /\ last.op = "background" /\ last.ret = 1 /\ last.str = "changed"
    /\ last.wasId > 0 /\ now = last.wasId + 1
    /\ latestdiscovery = now

\* C33: a discovery response that has a status other than 200, whose body
\* does not parse, or whose body has no .control.status or an empty one,
\* leaves the registry as it was (no point created, re-routed or changed in
\* state, status or deadline), triggers no rule and submits nothing.
C33_BadReportChangesNothing ==
    [][(last'.op = "discovered" /\ (last'.ret # 200 \/ last'.text # "ok"))
       => /\ Controls' = Controls
          /\ ControlsActive' = ControlsActive
          /\ last'.num = 0
          /\ pendingC' \subseteq pendingC]_vars

\* A response with status 500 whose body lists p1 arrived while p1 was not
\* in the registry, and p1 is still not in it.
C33_Witness ==
    /\ last.op = "discovered" /\ last.ret = 500 /\ last.text = "ok"
    /\ ~Known("p1")

\* C34: the provider that owns a control point is unknown or a provider
\* whose own response has named the point: a response changes the owner of
\* a point only to the provider that has sent that response, so that the
\* points listed in the late response of P1 to an actuation request are not
\* given to P2, where the origin of the request has been re-routed since.
C34_OwnerNamedThePoint ==
    [][\A n \in Names :
          OwnerAfter(n) # Owner(n) =>
             /\ last'.op \in {"discovered", "result"}
             /\ OwnerAfter(n) = last'.provider]_vars

\* The requests that a step has taken out of flight
Answered == pendingC \ pendingC'

\* C35: the deadline of a pulse is cleared only by a background tick, by a
\* cancel (called by a rule or by the body of a rule that a response has
\* triggered) or by a failed response to the start request of that point;
\* and only the failed response to that start request replaces the status
\* active of a point that has a deadline by the status error.
C35_OnlyOwnFailureClearsPulse ==
    [][\A n \in Names :
          (/\ Known(n)
           /\ Point(n).deadline # 0
           /\ \/ PointAfter(n).deadline = 0
              \/ Point(n).status = "a" /\ PointAfter(n).status = "e") =>
             \/ last'.op \in {"background", "cancel"}
             \/ last'.op \in {"discovered", "result"} /\ last'.num > 0
             \/ /\ last'.op = "result"
                /\ last'.ret \notin {0, 200}
                /\ ControlRequest("set", last'.provider, n, "on") \in Answered]_vars

\* C36: whenever a control point has a deadline the flag ControlsActive is
\* set, so that the scan of the background tick is not skipped while a
\* pulse is pending.
C36_DeadlineImpliesActiveFlag ==
    (\E i \in DOMAIN Controls : Controls[i].deadline # 0) => ControlsActive = 1

\* A background tick has scanned two points, one without a deadline and one
\* whose pulse has not ended, and has left the flag set.
C36_Witness ==
    /\ last.op = "background"
    /\ Known("p1") /\ Known("p2")
    /\ Point("p1").deadline = 0
    /\ Point("p2").deadline >= now
    /\ ControlsActive = 1

\* The ids of a sequence rise strictly.
Rising(ids) == \A i, j \in DOMAIN ids : i < j => ids[i] < ids[j]

\* C37, as the spec states it: the ids that a fetch response dispatches rise
\* strictly and are above every id dispatched since the lock was taken, so
\* that no id is dispatched twice while the stream stays locked.
C37_SessionIdsRise ==
    [][(last'.op = "response" /\ last'.dispatched # <<>>)
       => /\ Rising(last'.dispatched)
          /\ last'.dispatched[1] > sessionMax]_vars

\* C37, amended: the ids that a fetch response dispatches rise strictly and
\* are above the cursor that the handler was given (0 when it takes the
\* lock); in the event stream they are above every id dispatched since the
\* lock was taken, and in the sensor stream they are unless a snapshot that
\* reported a latest id below the cursor has reset the cursor to 0 since.
C37_SessionIdsRiseFromCursor ==
    [][(last'.op = "response" /\ last'.dispatched # <<>>)
       => /\ Rising(last'.dispatched)
          /\ last'.dispatched[1] > CursorOnLock(HouseMechCurrentServer,
                                                HouseMechLatestId)
          /\ HouseMechLatestId' = last'.dispatched[Len(last'.dispatched)]
          /\ (module = "event" \/ HouseMechLatestId >= sessionMax)
                => last'.dispatched[1] > sessionMax]_vars

\* A second fetch response of the lock session has dispatched ids above
\* those of the first.
C37_Witness ==
    /\ last.op = "response" /\ last.dispatched # <<>>
    /\ last.wasId > 0
    /\ last.dispatched[1] > last.wasId
    /\ HouseMechCurrentServer = last.provider
    /\ sessionMax = HouseMechLatestId

\* C38: housemech_control_ready returns true only if some control point has
\* an owning provider, that is, has been listed in the response of a
\* provider: the calls of start, cancel and state for names that no
\* provider has reported do not make it true.
C38_ReadyNeedsReportedPoint ==
    housemech_control_ready => \E i \in DOMAIN Controls : Controls[i].url # ""

\* The re-routing of a pulsed point: the directory lists two providers, both
\* report p1, and p1 is started with a pulse while the reports and the
\* responses come in.
NextReroute ==
    \/ \E n \in Names : ControlStart(n, MaxPulse, TRUE)
    \/ \E dir \in ControlDirectories :
          /\ now < MaxRouteTime
          /\ ControlBackground(now + 1, FALSE, dir, {})
    \/ \E p \in ControlProviders, e \in RoutingReports :
          ControlDiscovered(p, 200, "ok", e, <<>>, TRUE)
    \/ \E req \in pendingC : ControlResult(req, 200, "empty", <<>>, <<>>, TRUE)

SpecReroute == InitControl /\ [][NextReroute]_vars

\* C39: a control point that has a deadline has the status active, also
\* after a report that has re-routed it to another provider.
C39_DeadlineImpliesActive ==
    \A i \in DOMAIN Controls :
       Controls[i].deadline # 0 => Controls[i].status = "a"

\* The seconds remaining of two control points that one provider reports and
\* that the rules start with a pulse or without, in a buffer where the whole
\* text fits.
NextRemaining ==
    \/ \E n \in Names, q \in Pulses : ControlStart(n, q, TRUE)
    \/ /\ now < MaxStatusTime
       /\ ControlBackground(now + 1, FALSE, PointDirectory, {})
    \/ \E p \in Range(PointDirectory), e \in PulseReports :
          ControlDiscovered(p, 200, "ok", e, <<>>, TRUE)
    \/ \E req \in pendingC : ControlResult(req, 200, "empty", <<>>, <<>>, TRUE)
    \/ ControlStatus(MaxStatusSize, now)

SpecRemaining == InitControl /\ [][NextRemaining]_vars

\* C40: the seconds remaining that housemech_control_status reports for a
\* control point are never negative: 0 for a point that is not active or has
\* no deadline (an active point started without a pulse), and the deadline
\* minus the time of the call otherwise.
C40_RemainingNotNegative ==
    last.op = "status" =>
       \A i \in DOMAIN Controls :
          /\ ControlRemaining(Controls[i], now) >= 0
          /\ ControlRemaining(Controls[i], now) =
                IF Controls[i].status = "a" /\ Controls[i].deadline # 0
                THEN Controls[i].deadline - now ELSE 0

====
